---- MODULE Spec2Model ----
(***************************************************************************)
(* Model of the SUB compiler core: lexer (src/src/core/lexer.c), parser    *)
(* (src/src/core/parser.c), semantic analyzer (src/src/core/semantic.c),   *)
(* IR generation (src/src/ir/ir.c) and the driver that chains them         *)
(* (src/src/compilers/sub_native_compiler.c).  Characters are              *)
(* one-character strings, C strings are sequences of characters, a NULL    *)
(* pointer to a node is Nil.                                               *)
(***************************************************************************)
EXTENDS Integers, Sequences, FiniteSets, TLC

VARIABLES
    source,      \* the source text handed to lexer_tokenize
    pc,          \* position of the driver compile_to_native
    L,           \* the Lexer struct: ptr, line, column, error_count
    tokens,      \* the TokenArray filled by lexer_tokenize
    P,           \* the ParserState struct: current, had_error, panic_mode
    root,        \* children of the AST_PROGRAM node built by parser_parse
    S,           \* analyzer state: symbol table, current_scope, node types
    stmt,        \* index of the statement the AST_PROGRAM loop is at
    result,      \* return values of semantic_analyze / semantic_check_types
    M            \* the IRModule ir_generate_from_ast returns

vars == <<source, pc, L, tokens, P, root, S, stmt, result, M>>

(***************************************************************************)
(* Characters                                                              *)
(***************************************************************************)
NUL == "NUL"

\* a NULL char* (a C string never contains the terminator)
NULLSTR == <<NUL>>

\* the backquote character, which opens a string like the two quotes
BACKQUOTE == "BACKQUOTE"

Digits == {"0","1","2","3","4","5","6","7","8","9"}

Lower == {"a","b","c","d","e","f","g","h","i","j","k","l","m",
          "n","o","p","q","r","s","t","u","v","w","x","y","z"}

Upper == {"A","B","C","D","E","F","G","H","I","J","K","L","M",
          "N","O","P","Q","R","S","T","U","V","W","X","Y","Z"}

isdigit(c) == c \in Digits

isalpha(c) == c \in Lower \cup Upper

isalnum(c) == isalpha(c) \/ isdigit(c)

isxdigit(c) == c \in Digits \cup {"a","b","c","d","e","f","A","B","C","D","E","F"}

is_ident_start(c) == isalpha(c) \/ c = "_"

is_ident_cont(c) == isalnum(c) \/ c = "_"

\* strchr(s, c) != NULL
strchr(s, c) == \E i \in 1..Len(s) : s[i] = c

\* the characters s[from .. to-1] (strndup of a span)
Span(s, from, to) == [i \in 1..(to - from) |-> s[from + i - 1]]

(***************************************************************************)
(* Lexer                                                                   *)
(***************************************************************************)
make_token(type, value, line, col) ==
    [type |-> type, value |-> value, line |-> line, column |-> col]

make_token_span(type, start, len, line, col) ==
    [type |-> type, value |-> Span(source, start, start + len),
     line |-> line, column |-> col]

peek(l) == IF l.ptr <= Len(source) THEN source[l.ptr] ELSE NUL

peek_next(l) ==
    IF peek(l) = NUL THEN NUL
    ELSE IF l.ptr + 1 <= Len(source) THEN source[l.ptr + 1] ELSE NUL

advance_char(l) == [l EXCEPT !.ptr = @ + 1, !.column = @ + 1]

lex_error(l) == [l EXCEPT !.error_count = @ + 1]

kw_table ==
  <<
    [word |-> <<"v","a","r">>, type |-> "TOKEN_VAR"],
    [word |-> <<"c","o","n","s","t">>, type |-> "TOKEN_CONST"],
    [word |-> <<"l","e","t">>, type |-> "TOKEN_LET"],
    [word |-> <<"f","u","n","c","t","i","o","n">>, type |-> "TOKEN_FUNCTION"],
    [word |-> <<"r","e","t","u","r","n">>, type |-> "TOKEN_RETURN"],
    [word |-> <<"i","f">>, type |-> "TOKEN_IF"],
    [word |-> <<"e","l","i","f">>, type |-> "TOKEN_ELIF"],
    [word |-> <<"e","l","s","e">>, type |-> "TOKEN_ELSE"],
    [word |-> <<"f","o","r">>, type |-> "TOKEN_FOR"],
    [word |-> <<"w","h","i","l","e">>, type |-> "TOKEN_WHILE"],
    [word |-> <<"d","o">>, type |-> "TOKEN_DO"],
    [word |-> <<"e","n","d">>, type |-> "TOKEN_END"],
    [word |-> <<"b","r","e","a","k">>, type |-> "TOKEN_BREAK"],
    [word |-> <<"c","o","n","t","i","n","u","e">>, type |-> "TOKEN_CONTINUE"],
    [word |-> <<"t","r","y">>, type |-> "TOKEN_TRY"],
    [word |-> <<"c","a","t","c","h">>, type |-> "TOKEN_CATCH"],
    [word |-> <<"f","i","n","a","l","l","y">>, type |-> "TOKEN_FINALLY"],
    [word |-> <<"t","h","r","o","w">>, type |-> "TOKEN_THROW"],
    [word |-> <<"e","m","b","e","d">>, type |-> "TOKEN_EMBED"],
    [word |-> <<"e","n","d","e","m","b","e","d">>, type |-> "TOKEN_ENDEMBED"],
    [word |-> <<"c","p","p">>, type |-> "TOKEN_CPP"],
    [word |-> <<"c">>, type |-> "TOKEN_C"],
    [word |-> <<"p","y","t","h","o","n">>, type |-> "TOKEN_PYTHON"],
    [word |-> <<"j","a","v","a","s","c","r","i","p","t">>, type |-> "TOKEN_JAVASCRIPT"],
    [word |-> <<"r","u","s","t">>, type |-> "TOKEN_RUST"],
    [word |-> <<"u","i">>, type |-> "TOKEN_UI"],
    [word |-> <<"c","l","a","s","s">>, type |-> "TOKEN_CLASS"],
    [word |-> <<"e","x","t","e","n","d","s">>, type |-> "TOKEN_EXTENDS"],
    [word |-> <<"i","m","p","l","e","m","e","n","t","s">>, type |-> "TOKEN_IMPLEMENTS"],
    [word |-> <<"n","e","w">>, type |-> "TOKEN_NEW"],
    [word |-> <<"t","h","i","s">>, type |-> "TOKEN_THIS"],
    [word |-> <<"s","u","p","e","r">>, type |-> "TOKEN_SUPER"],
    [word |-> <<"s","t","a","t","i","c">>, type |-> "TOKEN_STATIC"],
    [word |-> <<"p","r","i","v","a","t","e">>, type |-> "TOKEN_PRIVATE"],
    [word |-> <<"p","u","b","l","i","c">>, type |-> "TOKEN_PUBLIC"],
    [word |-> <<"p","r","o","t","e","c","t","e","d">>, type |-> "TOKEN_PROTECTED"],
    [word |-> <<"a","s","y","n","c">>, type |-> "TOKEN_ASYNC"],
    [word |-> <<"a","w","a","i","t">>, type |-> "TOKEN_AWAIT"],
    [word |-> <<"y","i","e","l","d">>, type |-> "TOKEN_YIELD"],
    [word |-> <<"i","n","t">>, type |-> "TOKEN_INT"],
    [word |-> <<"f","l","o","a","t">>, type |-> "TOKEN_FLOAT"],
    [word |-> <<"s","t","r","i","n","g">>, type |-> "TOKEN_STRING"],
    [word |-> <<"b","o","o","l">>, type |-> "TOKEN_BOOL"],
    [word |-> <<"a","u","t","o">>, type |-> "TOKEN_AUTO"],
    [word |-> <<"v","o","i","d">>, type |-> "TOKEN_VOID"],
    [word |-> <<"t","r","u","e">>, type |-> "TOKEN_TRUE"],
    [word |-> <<"f","a","l","s","e">>, type |-> "TOKEN_FALSE"],
    [word |-> <<"n","u","l","l">>, type |-> "TOKEN_NULL"]
  >>

RECURSIVE kw_scan(_, _)
kw_scan(word, i) ==
    IF i > Len(kw_table) THEN "TOKEN_IDENTIFIER"
    ELSE IF kw_table[i].word = word THEN kw_table[i].type
    ELSE kw_scan(word, i + 1)

lookup_keyword(word) == kw_scan(word, 1)

RECURSIVE skip_line(_)
skip_line(l) ==
    IF peek(l) # NUL /\ peek(l) # "\n" THEN skip_line(advance_char(l)) ELSE l

\* variant: the loop of a block comment without nesting, a comment ends at
\* the first */
RECURSIVE skip_block_flat(_, _)
skip_block_flat(l, depth) ==
    IF peek(l) # NUL /\ depth > 0
    THEN IF peek(l) = "*" /\ peek_next(l) = "/"
         THEN skip_block_flat(advance_char(advance_char(l)), depth - 1)
         ELSE IF peek(l) = "\n"
         THEN skip_block_flat(advance_char([l EXCEPT !.line = @ + 1, !.column = 0]), depth)
         ELSE skip_block_flat(advance_char(l), depth)
    ELSE [l |-> l, depth |-> depth]

\* the loop of a block comment; the result carries the remaining depth
RECURSIVE skip_block(_, _)
skip_block(l, depth) ==
    IF peek(l) # NUL /\ depth > 0
    THEN IF peek(l) = "/" /\ peek_next(l) = "*"
         THEN skip_block(advance_char(advance_char(l)), depth + 1)
         ELSE IF peek(l) = "*" /\ peek_next(l) = "/"
         THEN skip_block(advance_char(advance_char(l)), depth - 1)
         ELSE IF peek(l) = "\n"
         THEN skip_block(advance_char([l EXCEPT !.line = @ + 1, !.column = 0]), depth)
         ELSE skip_block(advance_char(l), depth)
    ELSE [l |-> l, depth |-> depth]

RECURSIVE skip_whitespace_and_comments(_)
skip_whitespace_and_comments(l) ==
    LET c == peek(l) IN
    IF c = " " \/ c = "\t" \/ c = "\r"
    THEN skip_whitespace_and_comments(advance_char(l))
    ELSE IF c = "/" /\ peek_next(l) = "/"
    THEN skip_whitespace_and_comments(skip_line(l))
    ELSE IF c = "/" /\ peek_next(l) = "*"
    THEN LET r == skip_block(advance_char(advance_char(l)), 1) IN
         skip_whitespace_and_comments(
             IF r.depth > 0 THEN lex_error(r.l) ELSE r.l)
    ELSE l

HexVal(c) ==
    CASE c \in Digits -> CHOOSE n \in 0..9 : ToString(n) = c
      [] c \in {"a","A"} -> 10 [] c \in {"b","B"} -> 11
      [] c \in {"c","C"} -> 12 [] c \in {"d","D"} -> 13
      [] c \in {"e","E"} -> 14 [] c \in {"f","F"} -> 15

\* (char)strtol(hex, NULL, 16): the byte with that code.  Bytes that are
\* not in this table are written "#<code>"; code 0 is the terminator.
CharOfCode(n) ==
    CASE n = 0 -> NUL
      [] n = 10 -> "\n"
      [] n = 32 -> " "
      [] n = 34 -> "\""
      [] n \in 48..57 -> ToString(n - 48)
      [] n = 97 -> "a" [] n = 98 -> "b" [] n = 99 -> "c"
      [] n = 65 -> "A" [] n = 66 -> "B" [] n = 67 -> "C"
      [] OTHER -> "#" \o ToString(n)

\* process_escapes: the loop over raw[i], building buf and counting errors
RECURSIVE escapes_loop(_, _, _, _)
escapes_loop(raw, i, buf, l) ==
    IF i > Len(raw) THEN [val |-> buf, l |-> l]
    ELSE IF raw[i] = "\\" /\ i + 1 <= Len(raw)
    THEN LET e == raw[i + 1] IN
         CASE e = "n"  -> escapes_loop(raw, i + 2, Append(buf, "\n"), l)
           [] e = "t"  -> escapes_loop(raw, i + 2, Append(buf, "\t"), l)
           [] e = "r"  -> escapes_loop(raw, i + 2, Append(buf, "\r"), l)
           [] e = "\\" -> escapes_loop(raw, i + 2, Append(buf, "\\"), l)
           [] e = "'"  -> escapes_loop(raw, i + 2, Append(buf, "'"), l)
           [] e = "\"" -> escapes_loop(raw, i + 2, Append(buf, "\""), l)
           [] e = "0"  -> escapes_loop(raw, i + 2, Append(buf, NUL), l)
           [] e = "x"  ->
                \* C index i+1 is raw[i+2] here; the test is i + 2 < len
                IF i + 3 < Len(raw) + 1 /\ isxdigit(raw[i + 2]) /\ isxdigit(raw[i + 3])
                THEN escapes_loop(raw, i + 4,
                        Append(buf, CharOfCode(16 * HexVal(raw[i + 2]) + HexVal(raw[i + 3]))), l)
                ELSE escapes_loop(raw, i + 2, Append(buf, "x"), lex_error(l))
           [] OTHER    -> escapes_loop(raw, i + 2, Append(buf, e), lex_error(l))
    ELSE escapes_loop(raw, i + 1, Append(buf, raw[i]), l)

\* a C string ends at its first terminator: strdup(val) keeps what precedes it
RECURSIVE c_str(_)
c_str(buf) ==
    IF buf = <<>> \/ Head(buf) = NUL THEN <<>>
    ELSE <<Head(buf)>> \o c_str(Tail(buf))

process_escapes(raw, l) ==
    LET r == escapes_loop(raw, 1, <<>>, l) IN [val |-> c_str(r.val), l |-> r.l]

RECURSIVE string_body(_, _)
string_body(l, quote) ==
    IF peek(l) # NUL /\ peek(l) # quote
    THEN LET l1 == IF peek(l) = "\n" THEN [l EXCEPT !.line = @ + 1, !.column = 0] ELSE l
             l2 == IF peek(l1) = "\\" /\ peek_next(l1) # NUL THEN advance_char(l1) ELSE l1
         IN string_body(advance_char(l2), quote)
    ELSE l

scan_string(l) ==
    LET start_line == l.line
        start_col  == l.column
        quote      == peek(l)
        l0         == advance_char(l)
        start      == l0.ptr
        l1         == string_body(l0, quote)
        raw        == Span(source, start, l1.ptr)
        l2         == IF peek(l1) = NUL THEN lex_error(l1) ELSE advance_char(l1)
        r          == process_escapes(raw, l2)
    IN [tok |-> make_token("TOKEN_STRING_LITERAL", r.val, start_line, start_col),
        l |-> r.l]

RECURSIVE skip_digits(_)
skip_digits(l) == IF isdigit(peek(l)) THEN skip_digits(advance_char(l)) ELSE l

RECURSIVE skip_xdigits(_)
skip_xdigits(l) == IF isxdigit(peek(l)) THEN skip_xdigits(advance_char(l)) ELSE l

scan_number(l) ==
    LET start_col == l.column
        start     == l.ptr
    IN
    IF peek(l) = "0" /\ (peek_next(l) = "x" \/ peek_next(l) = "X")
    THEN LET l1 == advance_char(advance_char(l))
             l2 == IF ~isxdigit(peek(l1)) THEN lex_error(l1) ELSE l1
             l3 == skip_xdigits(l2)
         IN [tok |-> make_token_span("TOKEN_NUMBER", start, l3.ptr - start, l3.line, start_col),
             l |-> l3]
    ELSE LET l1 == skip_digits(l)
             l2 == IF peek(l1) = "." /\ peek_next(l1) # "."
                   THEN skip_digits(advance_char(l1)) ELSE l1
             l3 == IF peek(l2) = "e" \/ peek(l2) = "E"
                   THEN LET a == advance_char(l2)
                            b == IF peek(a) = "+" \/ peek(a) = "-" THEN advance_char(a) ELSE a
                            c == IF ~isdigit(peek(b)) THEN lex_error(b) ELSE b
                        IN skip_digits(c)
                   ELSE l2
         IN [tok |-> make_token_span("TOKEN_NUMBER", start, l3.ptr - start, l3.line, start_col),
             l |-> l3]

RECURSIVE skip_ident(_)
skip_ident(l) == IF is_ident_cont(peek(l)) THEN skip_ident(advance_char(l)) ELSE l

scan_identifier(l) ==
    LET start_col == l.column
        start     == l.ptr
        l1        == skip_ident(l)
        len       == l1.ptr - start
        type      == lookup_keyword(Span(source, start, l1.ptr))
    IN [tok |-> make_token_span(type, start, len, l1.line, start_col), l |-> l1]

\* the single-character punctuation of scan_operator_or_punct
PunctType(c) ==
    CASE c = "(" -> "TOKEN_LPAREN"   [] c = ")" -> "TOKEN_RPAREN"
      [] c = "{" -> "TOKEN_LBRACE"   [] c = "}" -> "TOKEN_RBRACE"
      [] c = "[" -> "TOKEN_LBRACKET" [] c = "]" -> "TOKEN_RBRACKET"
      [] c = "," -> "TOKEN_COMMA"    [] c = ";" -> "TOKEN_SEMICOLON"
      [] c = "?" -> "TOKEN_QUESTION" [] c = ":" -> "TOKEN_COLON"
      [] c = "#" -> "TOKEN_HASH"     [] c = "@" -> "TOKEN_OPERATOR"

\* the second characters that make a compound operator with c
CompoundSeconds(c) ==
    CASE c = "+" -> {"=", "+"}
      [] c = "-" -> {"=", "-", ">"}
      [] c = "*" -> {"=", "*"}
      [] c = "/" -> {"="}
      [] c = "%" -> {"="}
      [] c = "=" -> {"=", ">"}
      [] c = "!" -> {"="}
      [] c = "<" -> {"=", "<"}
      [] c = ">" -> {"=", ">"}
      [] c = "&" -> {"&", "="}
      [] c = "|" -> {"|", "="}
      [] c = "^" -> {"="}
      [] c = "." -> {"."}
      [] OTHER   -> {}

scan_operator_or_punct(l) ==
    LET start_col == l.column
        c  == peek(l)
        l1 == advance_char(l)
        n  == peek(l1)
    IN
    IF c \in {"(", ")", "{", "}", "[", "]", ",", ";", "?", ":", "#", "@"}
    THEN [tok |-> make_token(PunctType(c), <<c>>, l1.line, start_col), l |-> l1]
    ELSE IF n \in CompoundSeconds(c)
    THEN [tok |-> make_token(IF c = "=" /\ n = ">" THEN "TOKEN_ARROW" ELSE "TOKEN_OPERATOR",
                             <<c, n>>, l1.line, start_col),
          l |-> advance_char(l1)]
    ELSE [tok |-> make_token(IF c = "." THEN "TOKEN_DOT" ELSE "TOKEN_OPERATOR",
                             <<c>>, l1.line, start_col),
          l |-> l1]

\* variant: every character starts an operator
is_operator_or_punct_start_any(c) == c # NUL

is_operator_or_punct_start(c) ==
    c \in {"(", ")", "{", "}", "[", "]", ",", ";", "?", ":", "#", "@",
           ".", "+", "-", "*", "/", "%", "=", "!", "<", ">", "&", "|", "^", "~"}

\* one iteration of the main loop of lexer_tokenize, entered with peek # NUL.
\* The result is the lexer after the iteration and the tokens it pushed.
lex_iteration(l) ==
    LET l1 == skip_whitespace_and_comments(l)
        c  == peek(l1)
    IN
    IF c = NUL THEN [l |-> l1, push |-> <<>>]
    ELSE IF c = "\n"
    THEN [l |-> [advance_char(l1) EXCEPT !.line = @ + 1, !.column = 1],
          push |-> <<make_token("TOKEN_NEWLINE", NULLSTR, l1.line, l1.column)>>]
    ELSE IF c = "\"" \/ c = "'" \/ c = BACKQUOTE
    THEN LET r == scan_string(l1) IN [l |-> r.l, push |-> <<r.tok>>]
    ELSE IF isdigit(c)
    THEN LET r == scan_number(l1) IN [l |-> r.l, push |-> <<r.tok>>]
    ELSE IF c = "." /\ isdigit(peek_next(l1))
    THEN LET r == scan_number(l1) IN [l |-> r.l, push |-> <<r.tok>>]
    ELSE IF is_ident_start(c)
    THEN LET r == scan_identifier(l1) IN [l |-> r.l, push |-> <<r.tok>>]
    ELSE IF is_operator_or_punct_start(c)
    THEN LET r == scan_operator_or_punct(l1) IN [l |-> r.l, push |-> <<r.tok>>]
    ELSE [l |-> advance_char(lex_error(l1)), push |-> <<>>]

(***************************************************************************)
(* Parser                                                                  *)
(***************************************************************************)
\* a NULL ASTNode*
Nil == [type |-> "NULL"]

\* create_node: calloc leaves every link NULL and data_type TYPE_UNKNOWN.
\* tok is the index of the token the node is created from; children holds
\* the children array, which for AST_PROGRAM and AST_BLOCK is also the
\* body/next chain of statements (both are filled by the same loop).
create_node(type, tok, value) ==
    [type |-> type, value |-> value, tok |-> tok,
     line |-> tokens[tok].line, column |-> tokens[tok].column,
     data_type |-> "TYPE_UNKNOWN", metadata |-> NULLSTR,
     left |-> Nil, right |-> Nil, condition |-> Nil, body |-> Nil,
     children |-> <<>>]

add_child(parent, child) ==
    IF child = Nil THEN parent
    ELSE [parent EXCEPT !.children = Append(@, child)]

\* index of the token current_token returns
cur(p) == IF p.current > Len(tokens) THEN Len(tokens) ELSE p.current

current_token(p) == tokens[cur(p)]

peek_token(p, offset) ==
    LET pos == p.current + offset IN
    tokens[IF pos > Len(tokens) THEN Len(tokens) ELSE IF pos < 1 THEN 1 ELSE pos]

\* a variant without the test against token_count
advance_unbounded(p) == [p EXCEPT !.current = @ + 1]

advance(p) ==
    IF p.current < Len(tokens) THEN [p EXCEPT !.current = @ + 1] ELSE p

match(p, type) == current_token(p).type = type

check_operator(p, op) ==
    /\ current_token(p).type = "TOKEN_OPERATOR"
    /\ current_token(p).value # NULLSTR
    /\ current_token(p).value = op

parser_error(p, message) ==
    [p EXCEPT !.had_error = 1, !.panic_mode = 1,
              !.msgs = Append(@, [msg |-> message, at |-> cur(p)])]

SyncStart == {"TOKEN_VAR", "TOKEN_CONST", "TOKEN_LET", "TOKEN_FUNCTION",
              "TOKEN_RETURN", "TOKEN_IF", "TOKEN_FOR", "TOKEN_WHILE",
              "TOKEN_BREAK", "TOKEN_CONTINUE"}

RECURSIVE sync_loop(_)
sync_loop(p) ==
    IF match(p, "TOKEN_EOF") THEN p
    ELSE IF match(p, "TOKEN_NEWLINE") \/ match(p, "TOKEN_SEMICOLON") THEN advance(p)
    ELSE IF current_token(p).type \in SyncStart THEN p
    ELSE sync_loop(advance(p))

synchronize(p) == sync_loop([p EXCEPT !.panic_mode = 0])

\* expect returns the token (here its index, 0 for NULL) and the state
expect(p, type, message) ==
    IF match(p, type) THEN [tok |-> cur(p), p |-> advance(p)]
    ELSE [tok |-> 0, p |-> parser_error(p, message)]

RECURSIVE skip_separators(_)
skip_separators(p) ==
    IF match(p, "TOKEN_NEWLINE") \/ match(p, "TOKEN_SEMICOLON")
    THEN skip_separators(advance(p)) ELSE p

data_type_from_token(tok) ==
    CASE tok.type = "TOKEN_INT"    -> "TYPE_INT"
      [] tok.type = "TOKEN_FLOAT"  -> "TYPE_FLOAT"
      [] tok.type = "TOKEN_STRING" -> "TYPE_STRING"
      [] tok.type = "TOKEN_BOOL"   -> "TYPE_BOOL"
      [] tok.type = "TOKEN_VOID"   -> "TYPE_VOID"
      [] tok.type = "TOKEN_AUTO"   -> "TYPE_AUTO"
      [] OTHER -> "TYPE_UNKNOWN"

\* the operators each precedence level's loop tests with check_operator
FactorOps == {<<"*">>, <<"/">>, <<"%">>}

TermOps == {<<"+">>, <<"-">>}

ComparisonOps == {<<"<">>, <<">">>, <<"<", "=">>, <<">", "=">>}

EqualityOps == {<<"=", "=">>, <<"!", "=">>}

AndOps == {<<"&", "&">>}

OrOps == {<<"|", "|">>}

check_operators(p, ops) == \E op \in ops : check_operator(p, op)

binary_node(p, left, right) ==
    [create_node("AST_BINARY_EXPR", cur(p), current_token(p).value)
        EXCEPT !.left = left, !.right = right]

RECURSIVE parse(_, _)

\* the while(true) loop shared by array elements and call arguments:
\* parse an expression, attach it if not NULL, go on after a comma.
\* skip is TRUE for the array literal, which skips separators after a comma.
list_loop(r, skip) ==
    LET e  == parse("parse_expression", <<r.p>>)
        n1 == add_child(r.node, e.node)
    IN IF match(e.p, "TOKEN_COMMA")
       THEN parse("list_loop", <<[node |-> n1,
                       p |-> IF skip THEN skip_separators(advance(e.p)) ELSE advance(e.p)],
                      skip>>)
       ELSE [node |-> n1, p |-> e.p]

object_loop(obj, p) ==
    LET key == cur(p)
        r == IF match(p, "TOKEN_IDENTIFIER") \/ match(p, "TOKEN_STRING_LITERAL")
             THEN LET x == expect(advance(p), "TOKEN_COLON", "Expected ':' after object key")
                      v == parse("parse_expression", <<x.p>>)
                  IN [node |-> [create_node("AST_VAR_DECL", key, tokens[key].value)
                                   EXCEPT !.right = v.node],
                      p |-> v.p]
             ELSE [node |-> Nil, p |-> parser_error(p, "Expected object key")]
        o1 == add_child(obj, r.node)
    IN IF match(r.p, "TOKEN_COMMA")
       THEN parse("object_loop", <<o1, skip_separators(advance(r.p))>>)
       ELSE [node |-> o1, p |-> r.p]

parse_primary(p) ==
    LET t == cur(p)
        tok == tokens[t]
    IN
    CASE match(p, "TOKEN_NUMBER") ->
            [node |-> [create_node("AST_LITERAL", t, tok.value) EXCEPT
                           !.data_type = IF strchr(tok.value, ".") THEN "TYPE_FLOAT" ELSE "TYPE_INT"],
              p |-> advance(p)]
      [] match(p, "TOKEN_STRING_LITERAL") ->
            [node |-> [create_node("AST_LITERAL", t, tok.value) EXCEPT !.data_type = "TYPE_STRING"],
              p |-> advance(p)]
      [] match(p, "TOKEN_TRUE") \/ match(p, "TOKEN_FALSE") ->
            [node |-> [create_node("AST_LITERAL", t, tok.value) EXCEPT !.data_type = "TYPE_BOOL"],
              p |-> advance(p)]
      [] match(p, "TOKEN_NULL") ->
            [node |-> [create_node("AST_LITERAL", t, tok.value) EXCEPT !.data_type = "TYPE_NULL"],
              p |-> advance(p)]
      [] match(p, "TOKEN_IDENTIFIER") ->
            [node |-> create_node("AST_IDENTIFIER", t, tok.value), p |-> advance(p)]
      [] match(p, "TOKEN_LPAREN") ->
            LET e == parse("parse_expression", <<advance(p)>>)
                 x == expect(e.p, "TOKEN_RPAREN", "Expected ')' after expression")
             IN [node |-> e.node, p |-> x.p]
      [] match(p, "TOKEN_LBRACKET") ->
            LET array == create_node("AST_ARRAY_LITERAL", t, NULLSTR)
                 p1 == skip_separators(advance(p))
                 r  == IF ~match(p1, "TOKEN_RBRACKET")
                       THEN parse("list_loop", <<[node |-> array, p |-> p1], TRUE>>)
                       ELSE [node |-> array, p |-> p1]
                 x  == expect(r.p, "TOKEN_RBRACKET", "Expected ']' after array literal")
             IN [node |-> r.node, p |-> x.p]
      [] match(p, "TOKEN_LBRACE") ->
            LET obj == create_node("AST_OBJECT_LITERAL", t, NULLSTR)
                 p1  == skip_separators(advance(p))
                 r   == IF ~match(p1, "TOKEN_RBRACE")
                        THEN parse("object_loop", <<obj, p1>>)
                        ELSE [node |-> obj, p |-> p1]
                 x   == expect(r.p, "TOKEN_RBRACE", "Expected '}' after object literal")
             IN [node |-> r.node, p |-> x.p]
      [] OTHER ->
            [node |-> Nil, p |-> advance(parser_error(p, "Unexpected token in expression"))]

call_loop(expr, p) ==
    IF match(p, "TOKEN_LPAREN")
    THEN LET c0 == create_node("AST_CALL_EXPR", cur(p), NULLSTR)
             c1 == IF expr.type = "AST_IDENTIFIER"
                   THEN [c0 EXCEPT !.value = IF expr.value # NULLSTR THEN expr.value ELSE <<>>]
                   ELSE [c0 EXCEPT !.left = expr]
             p1 == advance(p)
             r  == IF ~match(p1, "TOKEN_RPAREN")
                   THEN parse("list_loop", <<[node |-> c1, p |-> p1], FALSE>>)
                   ELSE [node |-> c1, p |-> p1]
             x  == expect(r.p, "TOKEN_RPAREN", "Expected ')' after arguments")
         IN parse("call_loop", <<r.node, x.p>>)
    ELSE IF match(p, "TOKEN_LBRACKET")
    THEN LET start == cur(p)
             index == parse("parse_expression", <<advance(p)>>)
             x == expect(index.p, "TOKEN_RBRACKET", "Expected ']' after index expression")
             access == [create_node("AST_ARRAY_ACCESS", start, NULLSTR)
                           EXCEPT !.left = expr, !.right = index.node]
         IN parse("call_loop", <<access, x.p>>)
    ELSE IF match(p, "TOKEN_DOT")
    THEN LET dot == cur(p)
             name == expect(advance(p), "TOKEN_IDENTIFIER", "Expected member name after '.'")
             member == [create_node("AST_MEMBER_ACCESS", dot,
                                    IF name.tok # 0 THEN tokens[name.tok].value ELSE NULLSTR)
                           EXCEPT !.left = expr]
         IN parse("call_loop", <<member, name.p>>)
    ELSE [node |-> expr, p |-> p]

parse_call(p) ==
    LET r == parse("parse_primary", <<p>>) IN
    IF r.node = Nil THEN r ELSE parse("call_loop", <<r.node, r.p>>)

parse_unary(p) ==
    IF check_operator(p, <<"!">>) \/ check_operator(p, <<"-">>)
    THEN LET r == parse("parse_unary", <<advance(p)>>) IN
         [node |-> [create_node("AST_UNARY_EXPR", cur(p), current_token(p).value)
                       EXCEPT !.right = r.node],
          p |-> r.p]
    ELSE parse("parse_call", <<p>>)

factor_loop(e) ==
    IF check_operators(e.p, FactorOps)
    THEN LET r == parse("parse_unary", <<advance(e.p)>>) IN
         parse("factor_loop", <<[node |-> binary_node(e.p, e.node, r.node), p |-> r.p]>>)
    ELSE e

parse_factor(p) == parse("factor_loop", <<parse("parse_unary", <<p>>)>>)

\* variant: the right operand of + and - is a unary expression, so that a
\* following * is not taken into it
term_loop_flat(e) ==
    IF check_operators(e.p, TermOps)
    THEN LET r == parse("parse_unary", <<advance(e.p)>>) IN
         parse("term_loop", <<[node |-> binary_node(e.p, e.node, r.node), p |-> r.p]>>)
    ELSE e

term_loop(e) ==
    IF check_operators(e.p, TermOps)
    THEN LET r == parse("parse_factor", <<advance(e.p)>>) IN
         parse("term_loop", <<[node |-> binary_node(e.p, e.node, r.node), p |-> r.p]>>)
    ELSE e

parse_term(p) == parse("term_loop", <<parse("parse_factor", <<p>>)>>)

comparison_loop(e) ==
    IF check_operators(e.p, ComparisonOps)
    THEN LET r == parse("parse_term", <<advance(e.p)>>) IN
         parse("comparison_loop", <<[node |-> binary_node(e.p, e.node, r.node), p |-> r.p]>>)
    ELSE e

parse_comparison(p) == parse("comparison_loop", <<parse("parse_term", <<p>>)>>)

equality_loop(e) ==
    IF check_operators(e.p, EqualityOps)
    THEN LET r == parse("parse_comparison", <<advance(e.p)>>) IN
         parse("equality_loop", <<[node |-> binary_node(e.p, e.node, r.node), p |-> r.p]>>)
    ELSE e

parse_equality(p) == parse("equality_loop", <<parse("parse_comparison", <<p>>)>>)

and_loop(e) ==
    IF check_operators(e.p, AndOps)
    THEN LET r == parse("parse_equality", <<advance(e.p)>>) IN
         parse("and_loop", <<[node |-> binary_node(e.p, e.node, r.node), p |-> r.p]>>)
    ELSE e

parse_logical_and(p) == parse("and_loop", <<parse("parse_equality", <<p>>)>>)

or_loop(e) ==
    IF check_operators(e.p, OrOps)
    THEN LET r == parse("parse_logical_and", <<advance(e.p)>>) IN
         parse("or_loop", <<[node |-> binary_node(e.p, e.node, r.node), p |-> r.p]>>)
    ELSE e

parse_logical_or(p) == parse("or_loop", <<parse("parse_logical_and", <<p>>)>>)

ternary_tail(r) ==
    IF match(r.p, "TOKEN_QUESTION")
    THEN LET q == cur(r.p)
             then_expr == parse("parse_expression", <<advance(r.p)>>)
             x == expect(then_expr.p, "TOKEN_COLON", "Expected ':' in ternary expression")
             else_expr == parse("parse_expression", <<x.p>>)
         IN [node |-> [create_node("AST_TERNARY_EXPR", q, NULLSTR) EXCEPT
                          !.condition = r.node, !.left = then_expr.node,
                          !.right = else_expr.node],
             p |-> else_expr.p]
    ELSE r

parse_ternary(p) == parse("ternary_tail", <<parse("parse_logical_or", <<p>>)>>)

assignment_tail(r) ==
    IF check_operator(r.p, <<"=">>)
    THEN LET op == cur(r.p)
             value == parse("parse_assignment", <<advance(r.p)>>)
         IN [node |-> [create_node("AST_ASSIGN_STMT", op, <<"=">>) EXCEPT
                          !.left = r.node, !.right = value.node],
             p |-> value.p]
    ELSE r

parse_assignment(p) == parse("assignment_tail", <<parse("parse_ternary", <<p>>)>>)

parse_expression(p) == parse("parse_assignment", <<p>>)

\* the statement loop of parse_block_braced
braced_loop(block, p) ==
    IF ~match(p, "TOKEN_RBRACE") /\ ~match(p, "TOKEN_EOF")
    THEN LET r == parse("parse_statement", <<p>>) IN
         IF r.node # Nil
         THEN parse("braced_loop", <<add_child(block, r.node), skip_separators(r.p)>>)
         ELSE parse("braced_loop", <<block, skip_separators(synchronize(r.p))>>)
    ELSE [node |-> block, p |-> p]

parse_block_braced(p) ==
    LET start == expect(p, "TOKEN_LBRACE", "Expected '{' to start block") IN
    IF start.tok = 0 THEN [node |-> Nil, p |-> start.p]
    ELSE LET block == create_node("AST_BLOCK", start.tok, NULLSTR)
             r == parse("braced_loop", <<block, skip_separators(start.p)>>)
             x == expect(r.p, "TOKEN_RBRACE", "Expected '}' to close block")
         IN [node |-> r.node, p |-> x.p]

\* the statement loop of parse_block_until
until_loop(block, p, stop_on_else) ==
    IF match(p, "TOKEN_EOF") THEN [node |-> block, p |-> p]
    ELSE IF match(p, "TOKEN_END") \/ match(p, "TOKEN_RBRACE") THEN [node |-> block, p |-> p]
    ELSE IF stop_on_else /\ (match(p, "TOKEN_ELIF") \/ match(p, "TOKEN_ELSE"))
    THEN [node |-> block, p |-> p]
    ELSE LET r == parse("parse_statement", <<p>>) IN
         IF r.node # Nil
         THEN parse("until_loop", <<add_child(block, r.node), skip_separators(r.p), stop_on_else>>)
         ELSE parse("until_loop", <<block, skip_separators(synchronize(r.p)), stop_on_else>>)

parse_block_until(p, stop_on_else) ==
    parse("until_loop", <<create_node("AST_BLOCK", cur(p), NULLSTR), skip_separators(p), stop_on_else>>)

parse_block(p, stop_on_else) ==
    IF match(p, "TOKEN_LBRACE") THEN parse("parse_block_braced", <<p>>)
    ELSE parse("parse_block_until", <<p, stop_on_else>>)

\* the token loop of parse_embed_block: sb is the text gathered so far
RECURSIVE embed_loop(_, _)
embed_loop(sb, p) ==
    IF match(p, "TOKEN_EOF") THEN [sb |-> sb, p |-> p]
    ELSE IF match(p, "TOKEN_HASH") /\ peek_token(p, 1).type = "TOKEN_ENDEMBED"
    THEN [sb |-> sb, p |-> advance(advance(p))]
    ELSE LET tok == current_token(p) IN
         embed_loop(IF tok.type = "TOKEN_NEWLINE" THEN Append(sb, "\n")
                    ELSE IF tok.value # NULLSTR THEN (sb \o tok.value) \o <<" ">>
                    ELSE sb,
                    advance(p))

parse_embed_block(p) ==
    LET hash == expect(p, "TOKEN_HASH", "Expected '#'") IN
    IF hash.tok = 0 THEN [node |-> Nil, p |-> hash.p]
    ELSE IF ~match(hash.p, "TOKEN_EMBED")
    THEN [node |-> Nil, p |-> parser_error(hash.p, "Expected 'embed' after '#'")]
    ELSE LET p1 == advance(hash.p)
             lang == current_token(p1)
             node_type == IF lang.type = "TOKEN_CPP" THEN "AST_EMBED_CPP"
                          ELSE IF lang.type = "TOKEN_C" THEN "AST_EMBED_C"
                          ELSE "AST_EMBED_CODE"
             r == embed_loop(<<>>, advance(p1))
         IN [node |-> create_node(node_type, hash.tok, r.sb), p |-> r.p]

\* the optional ": type" of a declaration, a parameter or a function;
\* arrow is TRUE for the function, which also accepts "=>"
type_annotation(node, p, arrow, message) ==
    IF match(p, "TOKEN_COLON") \/ (arrow /\ match(p, "TOKEN_ARROW"))
    THEN LET p1 == advance(p)
             type_tok == current_token(p1)
             dt == data_type_from_token(type_tok)
         IN IF dt # "TYPE_UNKNOWN"
            THEN [node |-> [node EXCEPT !.data_type = dt], p |-> advance(p1)]
            ELSE IF match(p1, "TOKEN_IDENTIFIER")
            THEN [node |-> [node EXCEPT !.metadata = type_tok.value], p |-> advance(p1)]
            ELSE [node |-> node, p |-> parser_error(p1, message)]
    ELSE [node |-> node, p |-> p]

parse_var_decl(p, decl_type) ==
    LET start == cur(p)
        name == expect(advance(p), "TOKEN_IDENTIFIER", "Expected variable name")
    IN
    IF name.tok = 0 THEN [node |-> Nil, p |-> name.p]
    ELSE LET decl == create_node(decl_type, name.tok, tokens[name.tok].value)
             a == type_annotation(decl, name.p, FALSE, "Expected type name after ':'")
             r == IF check_operator(a.p, <<"=">>)
                  THEN LET e == parse("parse_expression", <<advance(a.p)>>) IN
                       [node |-> [a.node EXCEPT !.right = e.node], p |-> e.p]
                  ELSE a
         IN [node |-> [r.node EXCEPT !.line = tokens[start].line,
                                     !.column = tokens[start].column],
             p |-> r.p]

\* the parameter loop of parse_function
param_loop(func, p) ==
    LET param_tok == expect(p, "TOKEN_IDENTIFIER", "Expected parameter name") IN
    IF param_tok.tok = 0 THEN [node |-> func, p |-> param_tok.p]
    ELSE LET param == create_node("AST_PARAM_DECL", param_tok.tok, tokens[param_tok.tok].value)
             a == type_annotation(param, param_tok.p, FALSE, "Expected parameter type after ':'")
             f1 == add_child(func, a.node)
         IN IF match(a.p, "TOKEN_COMMA") THEN parse("param_loop", <<f1, advance(a.p)>>)
            ELSE [node |-> f1, p |-> a.p]

parse_function(p) ==
    LET start == cur(p)
        name == expect(advance(p), "TOKEN_IDENTIFIER", "Expected function name")
    IN
    IF name.tok = 0 THEN [node |-> Nil, p |-> name.p]
    ELSE LET func == create_node("AST_FUNCTION_DECL", name.tok, tokens[name.tok].value)
             lp == expect(name.p, "TOKEN_LPAREN", "Expected '(' after function name")
             ps == IF ~match(lp.p, "TOKEN_RPAREN") THEN parse("param_loop", <<func, lp.p>>)
                   ELSE [node |-> func, p |-> lp.p]
             rp == expect(ps.p, "TOKEN_RPAREN", "Expected ')' after parameters")
             a  == type_annotation(ps.node, rp.p, TRUE, "Expected return type after ':'")
             b  == parse("parse_block", <<skip_separators(a.p), FALSE>>)
             p2 == IF match(b.p, "TOKEN_END") THEN advance(b.p) ELSE b.p
         IN [node |-> [a.node EXCEPT !.body = b.node,
                                     !.line = tokens[start].line,
                                     !.column = tokens[start].column],
             p |-> p2]

parse_if(p) ==
    LET if_node == create_node("AST_IF_STMT", cur(p), NULLSTR)
        c  == parse("parse_expression", <<advance(p)>>)
        b  == parse("parse_block", <<skip_separators(c.p), TRUE>>)
        e  == IF match(b.p, "TOKEN_ELIF") THEN parse("parse_if", <<b.p>>)
              ELSE IF match(b.p, "TOKEN_ELSE")
              THEN parse("parse_block", <<skip_separators(advance(b.p)), FALSE>>)
              ELSE [node |-> Nil, p |-> b.p]
        p2 == IF match(e.p, "TOKEN_END") THEN advance(e.p) ELSE e.p
    IN [node |-> [if_node EXCEPT !.condition = c.node, !.body = b.node, !.right = e.node],
        p |-> p2]

parse_for(p) ==
    LET start == cur(p)
        for0 == create_node("AST_FOR_STMT", start, NULLSTR)
        var == expect(advance(p), "TOKEN_IDENTIFIER", "Expected loop variable after 'for'")
    IN
    IF var.tok = 0 THEN [node |-> Nil, p |-> var.p]
    ELSE LET for1 == [for0 EXCEPT !.value = tokens[var.tok].value]
             p1 == IF ~match(var.p, "TOKEN_IDENTIFIER") \/ current_token(var.p).value # <<"i", "n">>
                   THEN parser_error(var.p, "Expected 'in' after loop variable")
                   ELSE advance(var.p)
             it == parse("parse_expression", <<p1>>)
             ie == it.node
             for2 == IF ie # Nil /\ ie.type = "AST_CALL_EXPR" /\ ie.value # NULLSTR
                        /\ ie.value = <<"r", "a", "n", "g", "e">>
                     THEN add_child(for1,
                             [create_node("AST_RANGE_EXPR", start, <<"r", "a", "n", "g", "e">>)
                                 EXCEPT !.left = IF Len(ie.children) > 0 THEN ie.children[1] ELSE Nil,
                                        !.right = IF Len(ie.children) > 1 THEN ie.children[2] ELSE Nil])
                     ELSE IF ie # Nil THEN [for1 EXCEPT !.condition = ie]
                     ELSE for1
             b == parse("parse_block", <<skip_separators(it.p), FALSE>>)
             p2 == IF match(b.p, "TOKEN_END") THEN advance(b.p) ELSE b.p
         IN [node |-> [for2 EXCEPT !.body = b.node], p |-> p2]

parse_while(p) ==
    LET while_node == create_node("AST_WHILE_STMT", cur(p), NULLSTR)
        c == parse("parse_expression", <<advance(p)>>)
        b == parse("parse_block", <<skip_separators(c.p), FALSE>>)
        p2 == IF match(b.p, "TOKEN_END") THEN advance(b.p) ELSE b.p
    IN [node |-> [while_node EXCEPT !.condition = c.node, !.body = b.node], p |-> p2]

parse_return(p) ==
    LET ret == create_node("AST_RETURN_STMT", cur(p), NULLSTR)
        p1 == advance(p)
    IN
    IF ~match(p1, "TOKEN_NEWLINE") /\ ~match(p1, "TOKEN_SEMICOLON") /\
       ~match(p1, "TOKEN_END") /\ ~match(p1, "TOKEN_RBRACE") /\ ~match(p1, "TOKEN_EOF")
    THEN LET e == parse("parse_expression", <<p1>>) IN [node |-> [ret EXCEPT !.right = e.node], p |-> e.p]
    ELSE [node |-> ret, p |-> p1]

parse_statement(p0) ==
    LET p == skip_separators(p0) IN
    CASE match(p, "TOKEN_HASH") /\ peek_token(p, 1).type = "TOKEN_EMBED" ->
            parse_embed_block(p)
      [] match(p, "TOKEN_VAR") ->
            parse_var_decl(p, "AST_VAR_DECL")
      [] match(p, "TOKEN_CONST") ->
            parse_var_decl(p, "AST_CONST_DECL")
      [] match(p, "TOKEN_LET") ->
            parse_var_decl(p, "AST_VAR_DECL")
      [] match(p, "TOKEN_FUNCTION") ->
            parse("parse_function", <<p>>)
      [] match(p, "TOKEN_IF") ->
            parse("parse_if", <<p>>)
      [] match(p, "TOKEN_FOR") ->
            parse("parse_for", <<p>>)
      [] match(p, "TOKEN_WHILE") ->
            parse("parse_while", <<p>>)
      [] match(p, "TOKEN_RETURN") ->
            parse_return(p)
      [] match(p, "TOKEN_BREAK") ->
            [node |-> create_node("AST_BREAK_STMT", cur(p), NULLSTR), p |-> advance(p)]
      [] match(p, "TOKEN_CONTINUE") ->
            [node |-> create_node("AST_CONTINUE_STMT", cur(p), NULLSTR), p |-> advance(p)]
      [] match(p, "TOKEN_LBRACE") ->
            parse("parse_block_braced", <<p>>)
      [] OTHER ->
            parse("parse_expression", <<p>>)

\* a call of one parsing function by another (the functions are declared
\* ahead of their definitions); the arguments are evaluated before the call
\* is entered, and there is always at least one, the parser state
parse(name, args) ==
    CASE args = <<>> -> [node |-> Nil, p |-> P]
      [] name = "parse_expression" -> parse_expression(args[1])
      [] name = "parse_statement" -> parse_statement(args[1])
      [] name = "parse_primary" -> parse_primary(args[1])
      [] name = "parse_call" -> parse_call(args[1])
      [] name = "call_loop" -> call_loop(args[1], args[2])
      [] name = "list_loop" -> list_loop(args[1], args[2])
      [] name = "object_loop" -> object_loop(args[1], args[2])
      [] name = "parse_unary" -> parse_unary(args[1])
      [] name = "parse_factor" -> parse_factor(args[1])
      [] name = "factor_loop" -> factor_loop(args[1])
      [] name = "parse_term" -> parse_term(args[1])
      [] name = "term_loop" -> term_loop(args[1])
      [] name = "parse_comparison" -> parse_comparison(args[1])
      [] name = "comparison_loop" -> comparison_loop(args[1])
      [] name = "parse_equality" -> parse_equality(args[1])
      [] name = "equality_loop" -> equality_loop(args[1])
      [] name = "parse_logical_and" -> parse_logical_and(args[1])
      [] name = "and_loop" -> and_loop(args[1])
      [] name = "parse_logical_or" -> parse_logical_or(args[1])
      [] name = "or_loop" -> or_loop(args[1])
      [] name = "ternary_tail" -> ternary_tail(args[1])
      [] name = "parse_ternary" -> parse_ternary(args[1])
      [] name = "assignment_tail" -> assignment_tail(args[1])
      [] name = "parse_assignment" -> parse_assignment(args[1])
      [] name = "braced_loop" -> braced_loop(args[1], args[2])
      [] name = "until_loop" -> until_loop(args[1], args[2], args[3])
      [] name = "parse_block_braced" -> parse_block_braced(args[1])
      [] name = "parse_block_until" -> parse_block_until(args[1], args[2])
      [] name = "parse_block" -> parse_block(args[1], args[2])
      [] name = "parse_function" -> parse_function(args[1])
      [] name = "param_loop" -> param_loop(args[1], args[2])
      [] name = "parse_if" -> parse_if(args[1])
      [] name = "parse_for" -> parse_for(args[1])
      [] name = "parse_while" -> parse_while(args[1])

\* one iteration of the statement loop of parser_parse, entered when the
\* current token is not EOF: the state after it and the statement to attach
parse_iteration(p0) ==
    LET p == skip_separators(p0) IN
    IF match(p, "TOKEN_EOF") THEN [node |-> Nil, p |-> p]
    ELSE LET r == parse("parse_statement", <<p>>) IN
         IF r.node # Nil THEN r ELSE [node |-> Nil, p |-> synchronize(r.p)]

(***************************************************************************)
(* Semantic analyzer.  The analyzer state a holds the LocalSymbolTable     *)
(* (table, with the list head last, and current_scope), the data_type      *)
(* fields the analyzer has written into AST nodes (types, by the node's    *)
(* token), and the compile_error lines (errors).  A LocalSymbolEntry* is   *)
(* an index into table, 0 for NULL.                                        *)
(***************************************************************************)
\* a NULL DataType* (param_types before calloc)
NoTypes == <<"NULL">>

create_symbol_table(a) == [a EXCEPT !.table = <<>>, !.current_scope = 0]

add_symbol(a, name, type_str, data_type) ==
    [a EXCEPT !.table = Append(@,
        [name |-> name, type_str |-> type_str, data_type |-> data_type,
         return_type |-> "TYPE_UNKNOWN", param_types |-> NoTypes, param_count |-> 0,
         scope_level |-> a.current_scope, is_initialized |-> FALSE,
         is_constant |-> FALSE, is_function |-> FALSE])]

\* the walk from head: the entry nearest the head with that name
lookup_symbol_entry(a, name) ==
    LET hits == {i \in 1..Len(a.table) : a.table[i].name = name} IN
    IF hits = {} THEN 0 ELSE CHOOSE i \in hits : \A j \in hits : j <= i

lookup_symbol(a, name) == lookup_symbol_entry(a, name)

enter_scope(a) == [a EXCEPT !.current_scope = @ + 1]

\* a variant that lowers the counter and purges nothing
exit_scope_keep(a) == [a EXCEPT !.current_scope = @ - 1]

exit_scope(a) ==
    [a EXCEPT !.table = SelectSeq(@, LAMBDA e : e.scope_level # a.current_scope),
              !.current_scope = @ - 1]

compile_error(a, message, name, line) ==
    [a EXCEPT !.errors = Append(@, [pass |-> a.pass, msg |-> message,
                                    name |-> name, line |-> line])]

data_type_from_string(name) ==
    IF name = NULLSTR THEN "TYPE_UNKNOWN"
    ELSE IF name = <<"i","n","t">> THEN "TYPE_INT"
    ELSE IF name = <<"f","l","o","a","t">> THEN "TYPE_FLOAT"
    ELSE IF name = <<"s","t","r","i","n","g">> THEN "TYPE_STRING"
    ELSE IF name = <<"b","o","o","l">> THEN "TYPE_BOOL"
    ELSE IF name = <<"v","o","i","d">> THEN "TYPE_VOID"
    ELSE IF name = <<"a","u","t","o">> THEN "TYPE_AUTO"
    ELSE "TYPE_UNKNOWN"

data_types_are_compatible(expected, actual) ==
    IF expected = "TYPE_AUTO" \/ actual = "TYPE_AUTO" THEN TRUE
    ELSE IF expected = "TYPE_UNKNOWN" \/ actual = "TYPE_UNKNOWN" THEN FALSE
    ELSE IF expected = actual THEN TRUE
    ELSE IF expected = "TYPE_FLOAT" /\ actual = "TYPE_INT" THEN TRUE
    ELSE IF expected = "TYPE_INT" /\ actual = "TYPE_FLOAT" THEN TRUE
    ELSE FALSE

\* node->data_type as it is now: what the analyzer wrote, else the parser's
node_data_type(a, node) ==
    IF node.tok \in DOMAIN a.types THEN a.types[node.tok] ELSE node.data_type

\* node->data_type = t
set_data_type(a, node, t) == [a EXCEPT !.types = (node.tok :> t) @@ @]

Numeric(t) == t = "TYPE_INT" \/ t = "TYPE_FLOAT"

\* the scan of a literal's text in check_expression_type: "number", "float"
\* (a number with a dot) or "none"
RECURSIVE number_scan(_, _, _)
number_scan(v, i, has_dot) ==
    IF i > Len(v) THEN (IF has_dot THEN "float" ELSE "number")
    ELSE IF isdigit(v[i]) THEN number_scan(v, i + 1, has_dot)
    ELSE IF v[i] = "." /\ ~has_dot THEN number_scan(v, i + 1, TRUE)
    ELSE "none"

literal_type(v) ==
    IF Len(v) > 0 /\ (v[1] = "\"" \/ v[1] = "'") THEN "TYPE_STRING"
    ELSE IF v = <<"t","r","u","e">> \/ v = <<"f","a","l","s","e">> THEN "TYPE_BOOL"
    ELSE IF v = <<"n","u","l","l">> \/ v = <<"n","i","l">> THEN "TYPE_NULL"
    ELSE LET start == IF Len(v) > 0 /\ (v[1] = "-" \/ v[1] = "+") THEN 2 ELSE 1
             r == number_scan(v, start, FALSE)
         IN IF r # "none" /\ Len(v) > 0
            THEN (IF r = "float" THEN "TYPE_FLOAT" ELSE "TYPE_INT")
            ELSE "TYPE_UNKNOWN"

ArithOps == {<<"+">>, <<"-">>, <<"*">>, <<"/">>, <<"%">>}

CompareOps == {<<"=","=">>, <<"!","=">>, <<"<">>, <<">">>, <<"<","=">>, <<">","=">>}

LogicalOps == {<<"&","&">>, <<"|","|">>, <<"a","n","d">>, <<"o","r">>}

RECURSIVE check(_, _)

\* the result of a binary expression once both operand types are known
binary_result(node, a, left_type, right_type) ==
    LET op == node.value IN
    IF op \in ArithOps
    THEN IF op = <<"+">> /\ (left_type = "TYPE_STRING" \/ right_type = "TYPE_STRING")
         THEN LET a1 == IF left_type \notin {"TYPE_STRING", "TYPE_INT", "TYPE_FLOAT", "TYPE_BOOL"}
                        THEN compile_error(a, "Cannot convert to string for concatenation",
                                           op, node.line)
                        ELSE a
              IN [t |-> "TYPE_STRING", a |-> set_data_type(a1, node, "TYPE_STRING")]
         ELSE IF Numeric(left_type) /\ Numeric(right_type)
         THEN LET t == IF left_type = "TYPE_FLOAT" \/ right_type = "TYPE_FLOAT"
                       THEN "TYPE_FLOAT" ELSE "TYPE_INT"
              IN [t |-> t, a |-> set_data_type(a, node, t)]
         ELSE [t |-> "TYPE_UNKNOWN",
               a |-> set_data_type(compile_error(a, "Cannot apply operator", op, node.line),
                                   node, "TYPE_UNKNOWN")]
    ELSE IF op \in CompareOps
    THEN IF (left_type = "TYPE_STRING" /\ right_type = "TYPE_STRING")
            \/ (Numeric(left_type) /\ Numeric(right_type))
         THEN [t |-> "TYPE_BOOL", a |-> set_data_type(a, node, "TYPE_BOOL")]
         ELSE [t |-> "TYPE_UNKNOWN",
               a |-> set_data_type(compile_error(a, "Cannot compare", op, node.line),
                                   node, "TYPE_UNKNOWN")]
    ELSE IF op \in LogicalOps
    THEN LET a1 == IF left_type # "TYPE_BOOL"
                   THEN compile_error(a, "Logical operator requires boolean on left side",
                                      op, node.line)
                   ELSE a
             a2 == IF right_type # "TYPE_BOOL"
                   THEN compile_error(a1, "Logical operator requires boolean on right side",
                                      op, node.line)
                   ELSE a1
         IN [t |-> "TYPE_BOOL", a |-> set_data_type(a2, node, "TYPE_BOOL")]
    ELSE [t |-> "TYPE_UNKNOWN",
          a |-> set_data_type(compile_error(a, "Unknown binary operator", op, node.line),
                              node, "TYPE_UNKNOWN")]

\* the loop over the arguments of a call whose count matches
args_loop(node, i, a, entry, fn_name) ==
    IF i > Len(node.children) THEN a
    ELSE LET r == check("check_expression_type", <<node.children[i], a>>)
             param_type == a.table[entry].param_types[i]
             a1 == IF param_type # "TYPE_UNKNOWN" /\ param_type # "TYPE_AUTO"
                      /\ ~data_types_are_compatible(param_type, r.t)
                      /\ r.t # "TYPE_UNKNOWN"
                   THEN compile_error(r.a, "Argument type mismatch", fn_name, node.line)
                   ELSE r.a
         IN check("args_loop", <<node, i + 1, a1, entry, fn_name>>)

\* check every expression of a list, dropping the types
exprs_loop(list, i, a) ==
    IF i > Len(list) THEN a
    ELSE check("exprs_loop", <<list, i + 1, check("check_expression_type", <<list[i], a>>).a>>)

\* the loop over the elements 2.. of an array literal
array_loop(node, i, a, elem_type) ==
    IF i > Len(node.children) THEN a
    ELSE LET r == check("check_expression_type", <<node.children[i], a>>)
             a1 == IF ~data_types_are_compatible(elem_type, r.t)
                      /\ elem_type # "TYPE_UNKNOWN" /\ r.t # "TYPE_UNKNOWN"
                   THEN compile_error(r.a, "Array literal contains incompatible types",
                                      NULLSTR, node.line)
                   ELSE r.a
         IN check("array_loop", <<node, i + 1, a1, elem_type>>)

\* the loop over the pairs of an object literal
pairs_loop(node, i, a) ==
    IF i > Len(node.children) THEN a
    ELSE check("pairs_loop", <<node, i + 1,
            IF node.children[i].right # Nil
            THEN check("check_expression_type", <<node.children[i].right, a>>).a ELSE a>>)

check_expression_type(node, a) ==
    IF node = Nil THEN [t |-> "TYPE_UNKNOWN", a |-> a]
    ELSE IF node.type = "AST_LITERAL"
    THEN IF node.value = NULLSTR
         THEN [t |-> "TYPE_UNKNOWN",
               a |-> compile_error(a, "Literal has no value", NULLSTR, node.line)]
         ELSE LET t == literal_type(node.value) IN [t |-> t, a |-> set_data_type(a, node, t)]
    ELSE IF node.type = "AST_IDENTIFIER"
    THEN IF node.value = NULLSTR
         THEN [t |-> "TYPE_UNKNOWN",
               a |-> compile_error(a, "Identifier has no name", NULLSTR, node.line)]
         ELSE LET entry == lookup_symbol(a, node.value) IN
              IF entry = 0
              THEN [t |-> "TYPE_UNKNOWN",
                    a |-> compile_error(a, "Undefined variable", node.value, node.line)]
              ELSE LET a1 == IF ~a.table[entry].is_initialized
                             THEN compile_error(a, "Variable used before initialization",
                                                node.value, node.line)
                             ELSE a
                   IN [t |-> a.table[entry].data_type,
                       a |-> set_data_type(a1, node, a.table[entry].data_type)]
    ELSE IF node.type = "AST_BINARY_EXPR"
    THEN IF node.value = NULLSTR
         THEN [t |-> "TYPE_UNKNOWN",
               a |-> compile_error(a, "Binary expression has no operator", NULLSTR, node.line)]
         ELSE LET l == check("check_expression_type", <<node.left, a>>)
                  r == check("check_expression_type", <<node.right, l.a>>)
              IN binary_result(node, r.a, l.t, r.t)
    ELSE IF node.type = "AST_UNARY_EXPR"
    THEN IF node.value = NULLSTR
         THEN [t |-> "TYPE_UNKNOWN",
               a |-> compile_error(a, "Unary expression has no operator", NULLSTR, node.line)]
         ELSE LET r == check("check_expression_type", <<node.right, a>>) IN
              IF node.value = <<"!">> \/ node.value = <<"n","o","t">>
              THEN LET a1 == IF r.t # "TYPE_BOOL" /\ r.t # "TYPE_UNKNOWN"
                             THEN compile_error(r.a, "Logical NOT requires boolean",
                                                node.value, node.line)
                             ELSE r.a
                   IN [t |-> "TYPE_BOOL", a |-> set_data_type(a1, node, "TYPE_BOOL")]
              ELSE IF node.value = <<"-">>
              THEN LET a1 == IF ~Numeric(r.t) /\ r.t # "TYPE_UNKNOWN"
                             THEN compile_error(r.a, "Unary minus requires numeric type",
                                                node.value, node.line)
                             ELSE r.a
                   IN [t |-> r.t, a |-> set_data_type(a1, node, r.t)]
              ELSE [t |-> "TYPE_UNKNOWN",
                    a |-> compile_error(r.a, "Unknown unary operator", node.value, node.line)]
    ELSE IF node.type = "AST_CALL_EXPR"
    THEN IF node.value = NULLSTR /\ (node.left = Nil \/ node.left.type # "AST_IDENTIFIER")
         THEN [t |-> "TYPE_UNKNOWN", a |-> set_data_type(a, node, "TYPE_UNKNOWN")]
         ELSE LET fn_name == IF node.value # NULLSTR THEN node.value ELSE node.left.value
                  entry == lookup_symbol(a, fn_name)
              IN
              IF entry = 0 \/ ~a.table[entry].is_function
              THEN [t |-> "TYPE_UNKNOWN",
                    a |-> set_data_type(
                            compile_error(a, "Undefined function", fn_name, node.line),
                            node, "TYPE_UNKNOWN")]
              ELSE LET e == a.table[entry]
                       a1 == IF e.param_count >= 0 /\ e.param_types # NoTypes
                             THEN IF Len(node.children) # e.param_count
                                  THEN compile_error(a, "Function expects arguments",
                                                     fn_name, node.line)
                                  ELSE check("args_loop", <<node, 1, a, entry, fn_name>>)
                             ELSE check("exprs_loop", <<node.children, 1, a>>)
                       \* the entry is read again after the arguments are checked
                       t == a1.table[entry].return_type
                   IN [t |-> t, a |-> set_data_type(a1, node, t)]
    ELSE IF node.type = "AST_ARRAY_LITERAL"
    THEN LET a0 == set_data_type(a, node, "TYPE_ARRAY") IN
         IF Len(node.children) > 0
         THEN LET first == check("check_expression_type", <<node.children[1], a0>>) IN
              [t |-> "TYPE_ARRAY", a |-> check("array_loop", <<node, 2, first.a, first.t>>)]
         ELSE [t |-> "TYPE_ARRAY", a |-> a0]
    ELSE IF node.type = "AST_OBJECT_LITERAL"
    THEN [t |-> "TYPE_OBJECT",
          a |-> check("pairs_loop", <<node, 1, set_data_type(a, node, "TYPE_OBJECT")>>)]
    ELSE IF node.type = "AST_ARRAY_ACCESS"
    THEN LET l == check("check_expression_type", <<node.left, a>>)
             r == check("check_expression_type", <<node.right, l.a>>)
             a1 == IF l.t \notin {"TYPE_ARRAY", "TYPE_STRING", "TYPE_UNKNOWN"}
                   THEN compile_error(r.a, "Cannot index into non-array type", NULLSTR, node.line)
                   ELSE r.a
             a2 == IF r.t \notin {"TYPE_INT", "TYPE_UNKNOWN"}
                   THEN compile_error(a1, "Array index must be integer", NULLSTR, node.line)
                   ELSE a1
             t == IF l.t = "TYPE_STRING" THEN "TYPE_STRING" ELSE "TYPE_UNKNOWN"
         IN [t |-> t, a |-> set_data_type(a2, node, t)]
    ELSE IF node.type = "AST_MEMBER_ACCESS"
    THEN [t |-> "TYPE_UNKNOWN", a |-> set_data_type(a, node, "TYPE_UNKNOWN")]
    ELSE IF node.type = "AST_TERNARY_EXPR"
    THEN IF node.condition = Nil
         THEN [t |-> "TYPE_UNKNOWN",
               a |-> compile_error(a, "Ternary expression missing condition", NULLSTR, node.line)]
         ELSE LET c == check("check_expression_type", <<node.condition, a>>)
                  a1 == IF c.t # "TYPE_BOOL" /\ c.t # "TYPE_UNKNOWN"
                        THEN compile_error(c.a, "Ternary condition must be boolean",
                                           NULLSTR, node.line)
                        ELSE c.a
                  l == check("check_expression_type", <<node.left, a1>>)
                  r == check("check_expression_type", <<node.right, l.a>>)
                  a2 == IF ~data_types_are_compatible(l.t, r.t)
                           /\ l.t # "TYPE_UNKNOWN" /\ r.t # "TYPE_UNKNOWN"
                        THEN compile_error(r.a, "Ternary branches have incompatible types",
                                           NULLSTR, node.line)
                        ELSE r.a
              IN [t |-> l.t, a |-> set_data_type(a2, node, l.t)]
    ELSE [t |-> "TYPE_UNKNOWN", a |-> set_data_type(a, node, "TYPE_UNKNOWN")]

\* history: the calls of check_statement_type on declarations and assignments,
\* each with the analyzer state before and after it
unlogged(a) == [a EXCEPT !.calls = <<>>]

logged(node, a, r) ==
    [r EXCEPT !.calls = Append(@, [node |-> node, pre |-> unlogged(a), post |-> unlogged(r)])]

\* the redeclaration test of a declaration: an entry of that name at the
\* current scope level
already_declared(a, name) ==
    LET entry == lookup_symbol_entry(a, name) IN
    entry # 0 /\ a.table[entry].scope_level = a.current_scope

\* the update of the declared symbol once its initializer is checked
init_entry(a, e, node, t) ==
    [a EXCEPT !.table[e].data_type = t,
              !.table[e].is_initialized = TRUE,
              !.table[e].is_constant = (node.type = "AST_CONST_DECL")]

\* case AST_VAR_DECL / AST_CONST_DECL of check_statement_type
var_decl(node, a) ==
    IF node.value = NULLSTR
    THEN compile_error(a, "Variable declaration missing name", NULLSTR, node.line)
    ELSE IF already_declared(a, node.value)
    THEN compile_error(a, "Variable already declared in this scope", node.value, node.line)
    ELSE LET t0 == node_data_type(a, node)
             declared == IF t0 # "TYPE_UNKNOWN" THEN t0 ELSE "TYPE_AUTO"
             a1 == add_symbol(a, node.value, NULLSTR, declared)
         IN IF node.right # Nil
            THEN LET r == check("check_expression_type", <<node.right, a1>>)
                     e == lookup_symbol_entry(r.a, node.value)
                 IN IF e # 0
                    THEN set_data_type(init_entry(r.a, e, node, r.t), node, r.t)
                    ELSE r.a
            ELSE IF node.type = "AST_CONST_DECL"
            THEN compile_error(a1, "Const declaration requires initializer",
                               node.value, node.line)
            ELSE a1

\* the const test of an assignment
const_target(a, entry) == entry # 0 /\ a.table[entry].is_constant

\* case AST_ASSIGN_STMT of check_statement_type
assign_stmt(node, a) ==
    IF node.left = Nil
    THEN compile_error(a, "Assignment missing target", NULLSTR, node.line)
    ELSE IF node.left.type = "AST_IDENTIFIER" /\ lookup_symbol(a, node.left.value) = 0
    THEN compile_error(a, "Undefined variable in assignment", node.left.value, node.line)
    ELSE IF node.left.type \notin {"AST_IDENTIFIER", "AST_MEMBER_ACCESS", "AST_ARRAY_ACCESS"}
    THEN compile_error(a, "Assignment target must be identifier or member access",
                       NULLSTR, node.line)
    ELSE LET entry == IF node.left.type = "AST_IDENTIFIER"
                      THEN lookup_symbol(a, node.left.value) ELSE 0
         IN
         IF const_target(a, entry)
         THEN compile_error(a, "Cannot assign to const variable", node.left.value, node.line)
         ELSE LET r == check("check_expression_type", <<node.right, a>>)
                  et == IF entry # 0 THEN r.a.table[entry].data_type ELSE "TYPE_UNKNOWN"
              IN
              IF entry # 0 /\ ~data_types_are_compatible(et, r.t)
                 /\ et # "TYPE_AUTO" /\ r.t # "TYPE_UNKNOWN"
              THEN compile_error(r.a, "Cannot assign to variable of type",
                                 node.left.value, node.line)
              ELSE LET a1 == IF entry # 0
                             THEN [r.a EXCEPT
                                     !.table[entry].data_type =
                                         IF @ = "TYPE_AUTO" THEN r.t ELSE @,
                                     !.table[entry].is_initialized = TRUE]
                             ELSE r.a
                   IN set_data_type(a1, node, r.t)

\* check_statement_type on a node that is in no statement list (next NULL)
check_node(node, a, fn) ==
    IF node = Nil THEN a ELSE check("check_statement_type", <<<<node>>, 1, a, fn>>)

\* the loop of AST_BLOCK and AST_PROGRAM: every statement of the chain
stmts_loop(sibs, i, a, fn) ==
    IF i > Len(sibs) THEN a
    ELSE check("stmts_loop", <<sibs, i + 1, check("check_statement_type", <<sibs, i, a, fn>>), fn>>)

\* the loop that records the parameter types in the function's entry
param_types_of(a, node) ==
    [i \in 1..Len(node.children) |->
        LET param == node.children[i]
            t == node_data_type(a, param)
        IN IF t = "TYPE_UNKNOWN" /\ param.metadata # NULLSTR
           THEN data_type_from_string(param.metadata) ELSE t]

\* the loop that adds the parameters to the function's scope
params_loop(node, i, a) ==
    IF i > Len(node.children) THEN a
    ELSE LET param == node.children[i]
             t == node_data_type(a, param)
             a1 == IF param.value # NULLSTR
                   THEN LET a0 == add_symbol(a, param.value, NULLSTR,
                                      IF t # "TYPE_UNKNOWN" THEN t ELSE "TYPE_AUTO")
                        IN [a0 EXCEPT !.table[Len(a0.table)].is_initialized = TRUE]
                   ELSE a
         IN check("params_loop", <<node, i + 1, a1>>)

\* the loop of the default case over node->children
children_loop(list, i, a, fn) ==
    IF i > Len(list) THEN a
    ELSE check("children_loop", <<list, i + 1, check_node(list[i], a, fn), fn>>)

\* check("check_statement_type", <<sibs[i], table, current_function>>); the node's next
\* link is sibs[i + 1], or NULL when it is the last of its chain
check_statement_type(sibs, i, a, fn) ==
    IF i > Len(sibs) THEN a
    ELSE
    LET node == sibs[i] IN
    IF node.type \in {"AST_VAR_DECL", "AST_CONST_DECL"}
    THEN logged(node, a, var_decl(node, a))
    ELSE IF node.type = "AST_ASSIGN_STMT"
    THEN logged(node, a, assign_stmt(node, a))
    ELSE IF node.type = "AST_IF_STMT"
    THEN IF node.condition = Nil
         THEN compile_error(a, "If statement missing condition", NULLSTR, node.line)
         ELSE LET c == check("check_expression_type", <<node.condition, a>>)
                  a1 == IF c.t # "TYPE_BOOL" /\ c.t # "TYPE_UNKNOWN"
                        THEN compile_error(c.a, "If condition must be boolean", NULLSTR, node.line)
                        ELSE c.a
                  a2 == check_node(node.body, a1, fn)
              IN check("check_statement_type", <<sibs, i + 1, a2, fn>>)
    ELSE IF node.type \in {"AST_WHILE_STMT", "AST_DO_WHILE_STMT"}
    THEN IF node.condition = Nil
         THEN compile_error(a, "While statement missing condition", NULLSTR, node.line)
         ELSE LET c == check("check_expression_type", <<node.condition, a>>)
                  a1 == IF c.t # "TYPE_BOOL" /\ c.t # "TYPE_UNKNOWN"
                        THEN compile_error(c.a, "While condition must be boolean",
                                           NULLSTR, node.line)
                        ELSE c.a
              IN check_node(node.body, a1, fn)
    ELSE IF node.type = "AST_FOR_STMT"
    THEN LET a0 == enter_scope(a)
             a1 == IF node.value # NULLSTR
                   THEN LET x == add_symbol(a0, node.value, NULLSTR, "TYPE_AUTO") IN
                        [x EXCEPT !.table[Len(x.table)].is_initialized = TRUE]
                   ELSE a0
             a2 == IF Len(node.children) > 0
                   THEN LET range == node.children[1] IN
                        IF range.type = "AST_RANGE_EXPR"
                        THEN LET l == IF range.left # Nil
                                      THEN check("check_expression_type", <<range.left, a1>>).a ELSE a1
                             IN IF range.right # Nil
                                THEN check("check_expression_type", <<range.right, l>>).a ELSE l
                        ELSE a1
                   ELSE IF node.condition # Nil
                   THEN check("check_expression_type", <<node.condition, a1>>).a
                   ELSE a1
         IN exit_scope(check_node(node.body, a2, fn))
    ELSE IF node.type = "AST_RETURN_STMT"
    THEN IF node.right # Nil
         THEN LET r == check("check_expression_type", <<node.right, a>>) IN
              IF fn # 0
              THEN LET rt == r.a.table[fn].return_type IN
                   IF rt = "TYPE_UNKNOWN" \/ rt = "TYPE_AUTO"
                   THEN [r.a EXCEPT !.table[fn].return_type = r.t]
                   ELSE IF ~data_types_are_compatible(rt, r.t) /\ r.t # "TYPE_UNKNOWN"
                   THEN compile_error(r.a, "Return type does not match function return type",
                                      NULLSTR, node.line)
                   ELSE r.a
              ELSE r.a
         ELSE IF fn # 0 /\ a.table[fn].return_type = "TYPE_UNKNOWN"
         THEN [a EXCEPT !.table[fn].return_type = "TYPE_VOID"]
         ELSE a
    ELSE IF node.type = "AST_FUNCTION_DECL"
    THEN IF node.value # NULLSTR
         THEN LET a0 == add_symbol(a, node.value, <<"f","u","n","c","t","i","o","n">>,
                                   "TYPE_FUNCTION")
                  func_entry == Len(a0.table)
                  a1 == [a0 EXCEPT
                           !.table[func_entry].is_function = TRUE,
                           !.table[func_entry].return_type = node_data_type(a, node),
                           !.table[func_entry].param_count = Len(node.children),
                           !.table[func_entry].param_types =
                               IF Len(node.children) > 0 THEN param_types_of(a, node)
                               ELSE NoTypes]
                  a2 == check("params_loop", <<node, 1, enter_scope(a1)>>)
                  a3 == IF node.body # Nil THEN check_node(node.body, a2, func_entry) ELSE a2
              IN exit_scope(a3)
         ELSE a
    ELSE IF node.type = "AST_BLOCK"
    THEN exit_scope(check("stmts_loop", <<node.children, 1, enter_scope(a), fn>>))
    ELSE IF node.type = "AST_PROGRAM"
    THEN check("stmts_loop", <<node.children, 1, a, fn>>)
    ELSE LET a1 == check_node(node.left, a, fn)
             a2 == check_node(node.right, a1, fn)
             a3 == check_node(node.body, a2, fn)
             a4 == check_node(node.condition, a3, fn)
             a5 == check("check_statement_type", <<sibs, i + 1, a4, fn>>)
         IN check("children_loop", <<node.children, 1, a5, fn>>)

\* a call of one checking function by another (the functions are declared
\* ahead of their definitions)
check(name, args) ==
    CASE name = "check_expression_type" -> check_expression_type(args[1], args[2])
      [] name = "check_statement_type" -> check_statement_type(args[1], args[2], args[3], args[4])
      [] name = "args_loop" -> args_loop(args[1], args[2], args[3], args[4], args[5])
      [] name = "exprs_loop" -> exprs_loop(args[1], args[2], args[3])
      [] name = "array_loop" -> array_loop(args[1], args[2], args[3], args[4])
      [] name = "pairs_loop" -> pairs_loop(args[1], args[2], args[3])
      [] name = "stmts_loop" -> stmts_loop(args[1], args[2], args[3], args[4])
      [] name = "params_loop" -> params_loop(args[1], args[2], args[3])
      [] name = "children_loop" -> children_loop(args[1], args[2], args[3], args[4])

(***************************************************************************)
(* IR generation (src/src/ir/ir.c).  The IRModule m holds the list of      *)
(* functions (functions, head first), the string pool (string_literals)    *)
(* and the two function-local static counters of the if and while cases.   *)
(* An IRFunction* is an index into functions.  The global scope given to   *)
(* every function as parent symbol table stays empty, so a lookup ends in  *)
(* the function's own table.                                               *)
(***************************************************************************)
\* a NULL IRValue*
NoValue == [kind |-> "NULL"]

\* sprintf("%d", n) for n >= 0
RECURSIVE Dec(_)
Dec(n) ==
    IF n < 10 THEN <<CHOOSE d \in Digits : d = ToString(n)>>
    ELSE Append(Dec(n \div 10), CHOOSE d \in Digits : d = ToString(n % 10))

\* the value of a decimal digit
DigitVal(c) == CHOOSE n \in 0..9 : ToString(n) = c

\* atoll: optional blanks and sign, then the leading decimal digits
RECURSIVE atoll_digits(_, _, _)
atoll_digits(v, i, acc) ==
    IF i <= Len(v) /\ isdigit(v[i]) THEN atoll_digits(v, i + 1, acc * 10 + DigitVal(v[i]))
    ELSE acc

RECURSIVE atoll_from(_, _)
atoll_from(v, i) ==
    IF i > Len(v) THEN 0
    ELSE IF v[i] \in {" ", "\t", "\n", "\r"} THEN atoll_from(v, i + 1)
    ELSE IF v[i] = "-" THEN 0 - atoll_digits(v, i + 1, 0)
    ELSE IF v[i] = "+" THEN atoll_digits(v, i + 1, 0)
    ELSE atoll_digits(v, i, 0)

atoll(v) == atoll_from(v, 1)

ir_symbol_table_create == [head |-> <<>>, current_offset |-> 0]

ir_symbol_table_add(table, name) ==
    [head |-> Append(table.head, [name |-> name, stack_offset |-> table.current_offset - 8]),
     current_offset |-> table.current_offset - 8]

\* the symbol nearest the head with that name, 0 when there is none
ir_symbol_table_lookup(table, name) ==
    LET hits == {i \in 1..Len(table.head) : table.head[i].name = name} IN
    IF hits = {} THEN 0 ELSE CHOOSE i \in hits : \A j \in hits : j <= i

ir_module_create ==
    [functions |-> <<>>, string_literals |-> <<>>, string_count |-> 0,
     entry_point |-> <<"m","a","i","n">>, if_counter |-> 0, loop_counter |-> 0]

ir_function_create(name) ==
    [name |-> name, instructions |-> <<>>, sym_table |-> ir_symbol_table_create,
     param_count |-> 0, local_count |-> 0]

ir_instruction_create(opcode) ==
    [opcode |-> opcode, dest |-> NoValue, src1 |-> NoValue, src2 |-> NoValue,
     comment |-> NULLSTR]

ir_function_add_instruction(m, f, instr) ==
    [m EXCEPT !.functions[f].instructions = Append(@, instr)]

ir_value_create_int(value) == [kind |-> "IR_VAL_CONST", type |-> "IR_TYPE_INT", int_val |-> value]

ir_value_create_reg(reg_num, type) == [kind |-> "IR_VAL_REG", type |-> type, reg_num |-> reg_num]

ir_value_create_label(label) == [kind |-> "IR_VAL_LABEL", type |-> "IR_TYPE_LABEL", label |-> label]

\* the pool grows by the text; the value is the label .LC<index>
ir_value_create_string_literal(m, value) ==
    [m |-> [m EXCEPT !.string_literals = Append(@, value), !.string_count = @ + 1],
     val |-> [kind |-> "IR_VAL_LABEL", type |-> "IR_TYPE_STRING",
              label |-> <<".", "L", "C">> \o Dec(m.string_count)]]

\* the statements reached from node->left by the next links: the parser
\* links statements only from body, so a left child has no next
left_chain(node) == IF node.left = Nil THEN <<>> ELSE <<node.left>>

\* the statements reached from node->body by the next links
body_chain(node) ==
    IF node.type \in {"AST_PROGRAM", "AST_BLOCK"} THEN node.children
    ELSE IF node.body = Nil THEN <<>> ELSE <<node.body>>

\* the opcode of a binary operator
binary_opcode(op) ==
    IF op = <<"+">> THEN "IR_ADD"
    ELSE IF op = <<"-">> THEN "IR_SUB"
    ELSE IF op = <<"*">> THEN "IR_MUL"
    ELSE IF op = <<"/">> THEN "IR_DIV"
    ELSE IF op = <<"=", "=">> THEN "IR_EQ"
    ELSE IF op = <<"!", "=">> THEN "IR_NE"
    ELSE IF op = <<"<">> THEN "IR_LT"
    ELSE IF op = <<"<", "=">> THEN "IR_LE"
    ELSE IF op = <<">">> THEN "IR_GT"
    ELSE IF op = <<">", "=">> THEN "IR_GE"
    ELSE "IR_ADD"

RECURSIVE gen(_, _)

\* for (stmt = first; stmt; stmt = stmt->next) ir_generate_from_ast_node
gen_chain(m, f, chain, i, a) ==
    IF i > Len(chain) THEN m
    ELSE gen("gen_chain", <<gen("ir_generate_from_ast_node", <<m, f, chain[i], a>>),
                            f, chain, i + 1, a>>)

\* the arguments of a call, last first, each followed by a PUSH
gen_args(m, f, node, i, a) ==
    IF i < 1 THEN m
    ELSE LET m1 == gen("ir_generate_from_ast_node", <<m, f, node.children[i], a>>) IN
         gen("gen_args", <<ir_function_add_instruction(m1, f, ir_instruction_create("IR_PUSH")),
                           f, node, i - 1, a>>)

\* a is the analyzer state, read for the data_type fields it wrote
ir_generate_from_ast_node(m, f, node, a) ==
    IF node = Nil THEN m
    ELSE IF node.type \in {"AST_PROGRAM", "AST_BLOCK"}
    THEN gen("gen_chain", <<m, f, body_chain(node), 1, a>>)
    ELSE IF node.type = "AST_RETURN_STMT"
    THEN LET m1 == IF node.left # Nil
                   THEN gen("ir_generate_from_ast_node", <<m, f, node.left, a>>)
                   ELSE ir_function_add_instruction(m, f,
                            [ir_instruction_create("IR_CONST_INT") EXCEPT
                                !.src1 = ir_value_create_int(0)])
         IN ir_function_add_instruction(m1, f,
                [ir_instruction_create("IR_RETURN") EXCEPT !.comment = m.functions[f].name])
    ELSE IF node.type = "AST_VAR_DECL"
    THEN LET table == ir_symbol_table_add(m.functions[f].sym_table, node.value)
             offset == table.head[Len(table.head)].stack_offset
             m1 == [m EXCEPT !.functions[f].sym_table = table,
                             !.functions[f].local_count = @ + 1]
         IN IF node.right # Nil
            THEN ir_function_add_instruction(
                     gen("ir_generate_from_ast_node", <<m1, f, node.right, a>>), f,
                     [ir_instruction_create("IR_STORE") EXCEPT
                         !.dest = ir_value_create_int(offset)])
            ELSE m1
    ELSE IF node.type = "AST_CALL_EXPR"
    THEN IF node.value = <<"p","r","i","n","t">>
         THEN LET arg == IF node.left # Nil THEN node.left
                         ELSE IF Len(node.children) > 0 THEN node.children[1] ELSE Nil
              IN IF arg # Nil
                 THEN ir_function_add_instruction(
                          gen("ir_generate_from_ast_node", <<m, f, arg, a>>), f,
                          [ir_instruction_create("IR_PRINT") EXCEPT
                              !.src2 = IF node_data_type(a, arg) = "TYPE_STRING"
                                       THEN ir_value_create_int("IR_TYPE_STRING")
                                       ELSE ir_value_create_int("IR_TYPE_INT")])
                 ELSE m
         ELSE ir_function_add_instruction(
                  gen("gen_args", <<m, f, node, Len(node.children), a>>), f,
                  [ir_instruction_create("IR_CALL") EXCEPT
                      !.dest = ir_value_create_label(node.value),
                      !.src1 = ir_value_create_int(Len(node.children))])
    ELSE IF node.type = "AST_BINARY_EXPR"
    THEN IF node.value = <<"=">>
         THEN IF node.left # Nil /\ node.left.type = "AST_IDENTIFIER"
              THEN LET sym == ir_symbol_table_lookup(m.functions[f].sym_table, node.left.value) IN
                   IF sym # 0
                   THEN ir_function_add_instruction(
                            gen("ir_generate_from_ast_node", <<m, f, node.right, a>>), f,
                            [ir_instruction_create("IR_STORE") EXCEPT
                                !.dest = ir_value_create_int(
                                    m.functions[f].sym_table.head[sym].stack_offset)])
                   ELSE m
              ELSE m
         ELSE LET m1 == gen("ir_generate_from_ast_node", <<m, f, node.left, a>>)
                  m2 == ir_function_add_instruction(m1, f, ir_instruction_create("IR_PUSH"))
                  m3 == gen("ir_generate_from_ast_node", <<m2, f, node.right, a>>)
              IN ir_function_add_instruction(m3, f,
                     ir_instruction_create(binary_opcode(node.value)))
    ELSE IF node.type = "AST_LITERAL"
    THEN IF node_data_type(a, node) = "TYPE_STRING"
         THEN LET r == ir_value_create_string_literal(m, node.value) IN
              ir_function_add_instruction(r.m, f,
                  [ir_instruction_create("IR_CONST_INT") EXCEPT !.src1 = r.val])
         ELSE ir_function_add_instruction(m, f,
                  [ir_instruction_create("IR_CONST_INT") EXCEPT
                      !.src1 = ir_value_create_int(atoll(node.value))])
    ELSE IF node.type = "AST_IDENTIFIER"
    THEN LET sym == ir_symbol_table_lookup(m.functions[f].sym_table, node.value) IN
         IF sym # 0
         THEN ir_function_add_instruction(m, f,
                  [ir_instruction_create("IR_LOAD") EXCEPT
                      !.src1 = ir_value_create_int(
                          m.functions[f].sym_table.head[sym].stack_offset)])
         ELSE m
    ELSE IF node.type = "AST_IF_STMT"
    THEN LET current_if == m.if_counter
             else_label == <<"L","_","E","L","S","E","_">> \o Dec(current_if)
             end_label == <<"L","_","E","N","D","_","I","F","_">> \o Dec(current_if)
             m0 == [m EXCEPT !.if_counter = @ + 1]
             m1 == gen("ir_generate_from_ast_node", <<m0, f, node.condition, a>>)
             m2 == ir_function_add_instruction(m1, f,
                       [ir_instruction_create("IR_JUMP_IF_NOT") EXCEPT
                           !.dest = ir_value_create_label(
                               IF node.right # Nil THEN else_label ELSE end_label)])
             m3 == gen("ir_generate_from_ast_node", <<m2, f, node.body, a>>)
             m4 == IF node.right # Nil
                   THEN LET j == ir_function_add_instruction(m3, f,
                                     [ir_instruction_create("IR_JUMP") EXCEPT
                                         !.dest = ir_value_create_label(end_label)])
                            l == ir_function_add_instruction(j, f,
                                     [ir_instruction_create("IR_LABEL") EXCEPT
                                         !.dest = ir_value_create_label(else_label)])
                        IN gen("ir_generate_from_ast_node", <<l, f, node.right, a>>)
                   ELSE m3
         IN ir_function_add_instruction(m4, f,
                [ir_instruction_create("IR_LABEL") EXCEPT
                    !.dest = ir_value_create_label(end_label)])
    ELSE IF node.type = "AST_WHILE_STMT"
    THEN LET current_loop == m.loop_counter
             start_label == <<"L","_","W","H","I","L","E","_","S","T","A","R","T","_">>
                                \o Dec(current_loop)
             end_label == <<"L","_","W","H","I","L","E","_","E","N","D","_">>
                                \o Dec(current_loop)
             m0 == ir_function_add_instruction([m EXCEPT !.loop_counter = @ + 1], f,
                       [ir_instruction_create("IR_LABEL") EXCEPT
                           !.dest = ir_value_create_label(start_label)])
             m1 == gen("ir_generate_from_ast_node", <<m0, f, node.condition, a>>)
             m2 == ir_function_add_instruction(m1, f,
                       [ir_instruction_create("IR_JUMP_IF_NOT") EXCEPT
                           !.dest = ir_value_create_label(end_label)])
             m3 == gen("ir_generate_from_ast_node", <<m2, f, node.body, a>>)
             m4 == ir_function_add_instruction(m3, f,
                       [ir_instruction_create("IR_JUMP") EXCEPT
                           !.dest = ir_value_create_label(start_label)])
         IN ir_function_add_instruction(m4, f,
                [ir_instruction_create("IR_LABEL") EXCEPT
                    !.dest = ir_value_create_label(end_label)])
    ELSE LET m1 == gen("ir_generate_from_ast_node", <<m, f, node.left, a>>)
             m2 == gen("ir_generate_from_ast_node", <<m1, f, node.right, a>>)
         IN gen("gen_chain", <<m2, f, node.children, 1, a>>)

\* a call of one generating function by another
gen(name, args) ==
    CASE name = "ir_generate_from_ast_node" ->
             ir_generate_from_ast_node(args[1], args[2], args[3], args[4])
      [] name = "gen_chain" -> gen_chain(args[1], args[2], args[3], args[4], args[5])
      [] name = "gen_args" -> gen_args(args[1], args[2], args[3], args[4], args[5])

\* first pass of ir_generate_from_ast: an IRFunction for every function
\* declaration of the chain, each put at the head of the list
RECURSIVE create_functions(_, _, _)
create_functions(m, chain, i) ==
    IF i > Len(chain) THEN m
    ELSE LET s == chain[i] IN
         IF s.type = "AST_FUNCTION_DECL" /\ s.value # NULLSTR
            /\ s.value # <<"m","a","i","n">>
         THEN create_functions(
                  [m EXCEPT !.functions = <<ir_function_create(s.value)>> \o @], chain, i + 1)
         ELSE create_functions(m, chain, i + 1)

\* the first function declaration of the chain with that name, Nil for none
find_function_ast(chain, name) ==
    LET hits == {i \in 1..Len(chain) :
                    chain[i].type = "AST_FUNCTION_DECL" /\ chain[i].value = name}
    IN IF hits = {} THEN Nil ELSE chain[CHOOSE i \in hits : \A j \in hits : i <= j]

\* the parameters of a function become symbols of its table
RECURSIVE add_params(_, _, _, _)
add_params(m, f, params, i) ==
    IF i > Len(params) THEN m
    ELSE IF params[i].value # NULLSTR
    THEN add_params([m EXCEPT
                        !.functions[f].sym_table = ir_symbol_table_add(@, params[i].value),
                        !.functions[f].param_count = @ + 1],
                    f, params, i + 1)
    ELSE add_params(m, f, params, i + 1)

\* the statements of the program that main absorbs
RECURSIVE gen_main(_, _, _, _, _)
gen_main(m, f, chain, i, a) ==
    IF i > Len(chain) THEN m
    ELSE IF chain[i].type # "AST_FUNCTION_DECL"
    THEN gen_main(gen("ir_generate_from_ast_node", <<m, f, chain[i], a>>), f, chain, i + 1, a)
    ELSE gen_main(m, f, chain, i + 1, a)

\* second pass of ir_generate_from_ast: the code of every function of the
\* list, then its implicit return
RECURSIVE generate_functions(_, _, _, _)
generate_functions(m, f, ast, a) ==
    IF f > Len(m.functions) THEN m
    ELSE LET name == m.functions[f].name
             func_ast == IF name = <<"m","a","i","n">> THEN ast
                         ELSE find_function_ast(left_chain(ast), name)
         IN IF func_ast = Nil THEN generate_functions(m, f + 1, ast, a)
            ELSE LET m1 == IF func_ast.type = "AST_FUNCTION_DECL"
                           THEN LET p == add_params(m, f, func_ast.children, 1) IN
                                IF func_ast.body # Nil
                                THEN gen("ir_generate_from_ast_node", <<p, f, func_ast.body, a>>)
                                ELSE p
                           ELSE gen_main(m, f, left_chain(ast), 1, a)
                     ret == [ir_instruction_create("IR_RETURN") EXCEPT
                                !.src1 = ir_value_create_int(0), !.comment = name]
                 IN generate_functions(ir_function_add_instruction(m1, f, ret), f + 1, ast, a)

ir_generate_from_ast(ast, a) ==
    LET m0 == [ir_module_create EXCEPT !.functions = <<ir_function_create(<<"m","a","i","n">>)>>]
        m1 == IF ast.type = "AST_PROGRAM" THEN create_functions(m0, left_chain(ast), 1) ELSE m0
    IN generate_functions(m1, 1, ast, a)

(***************************************************************************)
(* Source texts given to the compiler                                      *)
(***************************************************************************)
\* the fragments programs are made of, as source text
Fragments ==
  <<
    \* 1: var x = 1
    <<"v", "a", "r", " ", "x", " ", "=", " ", "1">>,
    \* 2: var x = 2
    <<"v", "a", "r", " ", "x", " ", "=", " ", "2">>,
    \* 3: var x = 1 / function f() / var x = "hi" / end / var y = x
    <<"v", "a", "r", " ", "x", " ", "=", " ", "1", "\n", "f", "u", "n", "c", "t", "i", "o", "n", " ", "f", "(", ")", "\n", "v", "a", "r", " ", "x", " ", "=", " ", "\"", "h", "i", "\"", "\n", "e", "n", "d", "\n", "v", "a", "r", " ", "y", " ", "=", " ", "x">>,
    \* 4: const PI = 3.14
    <<"c", "o", "n", "s", "t", " ", "P", "I", " ", "=", " ", "3", ".", "1", "4">>,
    \* 5: PI = 4
    <<"P", "I", " ", "=", " ", "4">>,
    \* 6: const Q
    <<"c", "o", "n", "s", "t", " ", "Q">>,
    \* 7: var Q = 1
    <<"v", "a", "r", " ", "Q", " ", "=", " ", "1">>,
    \* 8: if true / end
    <<"i", "f", " ", "t", "r", "u", "e", "\n", "e", "n", "d">>,
    \* 9: { / PI = 4 / const Q / }
    <<"{", "\n", "P", "I", " ", "=", " ", "4", "\n", "c", "o", "n", "s", "t", " ", "Q", "\n", "}">>,
    \* 10: if true / else / PI = 4 / const Q / end
    <<"i", "f", " ", "t", "r", "u", "e", "\n", "e", "l", "s", "e", "\n", "P", "I", " ", "=", " ", "4", "\n", "c", "o", "n", "s", "t", " ", "Q", "\n", "e", "n", "d">>,
    \* 11: var y = PI = 4
    <<"v", "a", "r", " ", "y", " ", "=", " ", "P", "I", " ", "=", " ", "4">>
  >>

MaxFragments == 2

\* the fragments of a program, each on lines of its own
RECURSIVE JoinLines(_)
JoinLines(prog) ==
    IF Len(prog) = 0 THEN <<>>
    ELSE IF Len(prog) = 1 THEN Fragments[prog[1]]
    ELSE (Fragments[prog[1]] \o <<"\n">>) \o JoinLines(Tail(prog))

Programs == UNION {[1..n -> 1..Len(Fragments)] : n \in 1..MaxFragments}

ProgramSources == {JoinLines(prog) : prog \in Programs}

\* every text over a small alphabet: an identifier character, a digit, a
\* character that starts no token, a quote, the comment characters, a line
\* end and a blank
LexAlphabet == {"e", "1", "$", "\"", "/", "*", "\n", " "}

MaxLexLen == 4

LexSources == UNION {[1..n -> LexAlphabet] : n \in 0..MaxLexLen}

\* the binary operators, tightest first
BinaryOperators ==
    <<<<"*">>, <<"/">>, <<"%">>, <<"+">>, <<"-">>, <<"<">>, <<">">>, <<"<", "=">>, <<">", "=">>, <<"=", "=">>, <<"!", "=">>, <<"&", "&">>, <<"|", "|">>>>

MaxOps == 2

Numerals == <<"1", "2", "3", "4", "5", "6", "7", "8", "9">>

\* x = 1 op 2 op 3 ...: an assignment of a chain of binary operations on
\* the literals 1, 2, 3, ...
RECURSIVE ChainText(_, _)
ChainText(ops, i) ==
    IF i > Len(ops) THEN <<>>
    ELSE (<<" ">> \o BinaryOperators[ops[i]] \o <<" ">> \o <<Numerals[i + 1]>>)
         \o ChainText(ops, i + 1)

ChainSource(ops) == <<"x", " ", "=", " ", "1">> \o ChainText(ops, 1)

OpChains == UNION {[1..n -> 1..Len(BinaryOperators)] : n \in 1..MaxOps}

\* n1 = n2 = n3: chains of assignments between one-letter names
AssignNames == {"a", "b", "c", "d"}

AssignSource(names) ==
    <<names[1]>> \o <<" ", "=", " ">> \o <<names[2]>> \o <<" ", "=", " ">> \o <<names[3]>>

PrecSources ==
    {ChainSource(ops) : ops \in OpChains}
        \cup {AssignSource(names) : names \in [1..3 -> AssignNames]}

\* var r = A op B: a declaration initialised with one binary operation on
\* two Int literals, a Float literal, a String literal, an undeclared name
\* and a Bool literal
Operands ==
    <<<<"1">>, <<"2">>, <<"2", ".", "5">>, <<"\"", "a", "\"">>, <<"z">>,
      <<"t", "r", "u", "e">>>>

ExprSource(A, op, B) ==
    <<"v", "a", "r", " ", "r", " ", "=", " ">> \o Operands[A] \o <<" ">>
        \o BinaryOperators[op] \o <<" ">> \o Operands[B]

ExprSources ==
    {ExprSource(A, op, B) : A \in 1..Len(Operands), op \in 1..Len(BinaryOperators),
                            B \in 1..Len(Operands)}

\* programs of function declarations and calls
FuncFragments ==
  <<
    \* 1: function f() / end
    <<"f", "u", "n", "c", "t", "i", "o", "n", " ", "f", "(", ")", "\n", "e", "n", "d">>,
    \* 2: function f(a) / end
    <<"f", "u", "n", "c", "t", "i", "o", "n", " ", "f", "(", "a", ")", "\n", "e", "n", "d">>,
    \* 3: function f() / var r = f() / end
    <<"f", "u", "n", "c", "t", "i", "o", "n", " ", "f", "(", ")", "\n", "v", "a", "r", " ", "r", " ", "=", " ", "f", "(", ")", "\n", "e", "n", "d">>,
    \* 4: function f() / var r = g() / end
    <<"f", "u", "n", "c", "t", "i", "o", "n", " ", "f", "(", ")", "\n", "v", "a", "r", " ", "r", " ", "=", " ", "g", "(", ")", "\n", "e", "n", "d">>,
    \* 5: function g() / var s = f() / end
    <<"f", "u", "n", "c", "t", "i", "o", "n", " ", "g", "(", ")", "\n", "v", "a", "r", " ", "s", " ", "=", " ", "f", "(", ")", "\n", "e", "n", "d">>,
    \* 6: var r = f()
    <<"v", "a", "r", " ", "r", " ", "=", " ", "f", "(", ")">>,
    \* 7: var r = f(1)
    <<"v", "a", "r", " ", "r", " ", "=", " ", "f", "(", "1", ")">>,
    \* 8: var r = f(1, 2)
    <<"v", "a", "r", " ", "r", " ", "=", " ", "f", "(", "1", ",", " ", "2", ")">>,
    \* 9: var f = 1
    <<"v", "a", "r", " ", "f", " ", "=", " ", "1">>
  >>

MaxFuncFragments == 2

RECURSIVE JoinFuncLines(_)
JoinFuncLines(prog) ==
    IF Len(prog) = 0 THEN <<>>
    ELSE IF Len(prog) = 1 THEN FuncFragments[prog[1]]
    ELSE (FuncFragments[prog[1]] \o <<"\n">>) \o JoinFuncLines(Tail(prog))

FuncPrograms == UNION {[1..n -> 1..Len(FuncFragments)] : n \in 1..MaxFuncFragments}

FuncSources == {JoinFuncLines(prog) : prog \in FuncPrograms}

\* programs of if and while statements and of string literals, to be lowered
LowerFragments ==
  <<
    \* 1: if true / var a = 1 / else / var b = 2 / end
    <<"i", "f", " ", "t", "r", "u", "e", "\n", "v", "a", "r", " ", "a", " ", "=", " ", "1", "\n", "e", "l", "s", "e", "\n", "v", "a", "r", " ", "b", " ", "=", " ", "2", "\n", "e", "n", "d">>,
    \* 2: if true / if false / var a = 1 / else / var b = 2 / end / else / var c = 3 / end
    <<"i", "f", " ", "t", "r", "u", "e", "\n", "i", "f", " ", "f", "a", "l", "s", "e", "\n", "v", "a", "r", " ", "a", " ", "=", " ", "1", "\n", "e", "l", "s", "e", "\n", "v", "a", "r", " ", "b", " ", "=", " ", "2", "\n", "e", "n", "d", "\n", "e", "l", "s", "e", "\n", "v", "a", "r", " ", "c", " ", "=", " ", "3", "\n", "e", "n", "d">>,
    \* 3: while true / var d = 4 / end
    <<"w", "h", "i", "l", "e", " ", "t", "r", "u", "e", "\n", "v", "a", "r", " ", "d", " ", "=", " ", "4", "\n", "e", "n", "d">>,
    \* 4: function f() / if true / var a = 1 / else / var b = 2 / end / end
    <<"f", "u", "n", "c", "t", "i", "o", "n", " ", "f", "(", ")", "\n", "i", "f", " ", "t", "r", "u", "e", "\n", "v", "a", "r", " ", "a", " ", "=", " ", "1", "\n", "e", "l", "s", "e", "\n", "v", "a", "r", " ", "b", " ", "=", " ", "2", "\n", "e", "n", "d", "\n", "e", "n", "d">>,
    \* 5: var s = "hi"
    <<"v", "a", "r", " ", "s", " ", "=", " ", "\"", "h", "i", "\"">>,
    \* 6: var t = "hi"
    <<"v", "a", "r", " ", "t", " ", "=", " ", "\"", "h", "i", "\"">>,
    \* 7: var u = "yo"
    <<"v", "a", "r", " ", "u", " ", "=", " ", "\"", "y", "o", "\"">>,
    \* 8: print("hi")
    <<"p", "r", "i", "n", "t", "(", "\"", "h", "i", "\"", ")">>
  >>

MaxLowerFragments == 2

RECURSIVE JoinLowerLines(_)
JoinLowerLines(prog) ==
    IF Len(prog) = 0 THEN <<>>
    ELSE IF Len(prog) = 1 THEN LowerFragments[prog[1]]
    ELSE (LowerFragments[prog[1]] \o <<"\n">>) \o JoinLowerLines(Tail(prog))

LowerPrograms == UNION {[1..n -> 1..Len(LowerFragments)] : n \in 1..MaxLowerFragments}

LowerSources == {JoinLowerLines(prog) : prog \in LowerPrograms}

\* texts of line ends, quotes, backslashes, comment delimiters and a letter
NlPieces == <<<<"\n">>, <<"\"">>, <<"\\">>, <<"/", "/">>, <<"/", "*">>, <<"*", "/">>, <<"e">>>>

MaxNlPieces == 5

RECURSIVE Concat(_, _)
Concat(pieces, choice) ==
    IF Len(choice) = 0 THEN <<>>
    ELSE pieces[Head(choice)] \o Concat(pieces, Tail(choice))

NlSources ==
    {Concat(NlPieces, choice) :
        choice \in UNION {[1..n -> 1..Len(NlPieces)] : n \in 1..MaxNlPieces}}

\* texts of comment delimiters, stars, a letter and line ends, and the text
\* /* a /* b */ c */ var x = 1
CommentPieces == <<<<"/", "*">>, <<"*", "/">>, <<"*">>, <<"e">>, <<"\n">>>>

MaxCommentPieces == 5

NestedCommentText ==
    <<"/", "*", " ", "a", " ", "/", "*", " ", "b", " ", "*", "/", " ", "c", " ", "*", "/", " ", "v", "a", "r", " ", "x", " ", "=", " ", "1">>

CommentSources ==
    {Concat(CommentPieces, choice) :
        choice \in UNION {[1..n -> 1..Len(CommentPieces)] : n \in 1..MaxCommentPieces}}
        \cup {NestedCommentText}

\* statements that open scopes, with declarations and assignments inside and outside
ScopeFragments ==
  <<
    \* 1: var x = 1
    <<"v", "a", "r", " ", "x", " ", "=", " ", "1">>,
    \* 2: for i in range(1, 3) / var x = 2 / end
    <<"f", "o", "r", " ", "i", " ", "i", "n", " ", "r", "a", "n", "g", "e", "(", "1", ",", " ", "3", ")", "\n", "v", "a", "r", " ", "x", " ", "=", " ", "2", "\n", "e", "n", "d">>,
    \* 3: function f(a) / var x = 3 / end
    <<"f", "u", "n", "c", "t", "i", "o", "n", " ", "f", "(", "a", ")", "\n", "v", "a", "r", " ", "x", " ", "=", " ", "3", "\n", "e", "n", "d">>,
    \* 4: { / var x = 4 / x = 5 / }
    <<"{", "\n", "v", "a", "r", " ", "x", " ", "=", " ", "4", "\n", "x", " ", "=", " ", "5", "\n", "}">>,
    \* 5: while true / var y = 1 / x = 2 / end
    <<"w", "h", "i", "l", "e", " ", "t", "r", "u", "e", "\n", "v", "a", "r", " ", "y", " ", "=", " ", "1", "\n", "x", " ", "=", " ", "2", "\n", "e", "n", "d">>,
    \* 6: x = 6
    <<"x", " ", "=", " ", "6">>,
    \* 7: for x in range(1, 3) / x = 2 / end
    <<"f", "o", "r", " ", "x", " ", "i", "n", " ", "r", "a", "n", "g", "e", "(", "1", ",", " ", "3", ")", "\n", "x", " ", "=", " ", "2", "\n", "e", "n", "d">>,
    \* 8: if true / var x = 7 / end
    <<"i", "f", " ", "t", "r", "u", "e", "\n", "v", "a", "r", " ", "x", " ", "=", " ", "7", "\n", "e", "n", "d">>
  >>

MaxScopeFragments == 2

RECURSIVE JoinScopeLines(_)
JoinScopeLines(prog) ==
    IF Len(prog) = 0 THEN <<>>
    ELSE IF Len(prog) = 1 THEN ScopeFragments[prog[1]]
    ELSE (ScopeFragments[prog[1]] \o <<"\n">>) \o JoinScopeLines(Tail(prog))

ScopePrograms == UNION {[1..n -> 1..Len(ScopeFragments)] : n \in 1..MaxScopeFragments}

ScopeSources == {JoinScopeLines(prog) : prog \in ScopePrograms}

\* statements for the lowering: declarations, assignments, returns, binary expressions, parameters and shadowing
IrFragments ==
  <<
    \* 1: var x = 1
    <<"v", "a", "r", " ", "x", " ", "=", " ", "1">>,
    \* 2: x = 2
    <<"x", " ", "=", " ", "2">>,
    \* 3: function f(a) / var x = 1 / x = a / return x / end
    <<"f", "u", "n", "c", "t", "i", "o", "n", " ", "f", "(", "a", ")", "\n", "v", "a", "r", " ", "x", " ", "=", " ", "1", "\n", "x", " ", "=", " ", "a", "\n", "r", "e", "t", "u", "r", "n", " ", "x", "\n", "e", "n", "d">>,
    \* 4: function g() / return / end
    <<"f", "u", "n", "c", "t", "i", "o", "n", " ", "g", "(", ")", "\n", "r", "e", "t", "u", "r", "n", "\n", "e", "n", "d">>,
    \* 5: var y = 1 + 2
    <<"v", "a", "r", " ", "y", " ", "=", " ", "1", " ", "+", " ", "2">>,
    \* 6: var z = 1 % 2
    <<"v", "a", "r", " ", "z", " ", "=", " ", "1", " ", "%", " ", "2">>,
    \* 7: var w = 1 && 2
    <<"v", "a", "r", " ", "w", " ", "=", " ", "1", " ", "&", "&", " ", "2">>,
    \* 8: var v = 1 || 2
    <<"v", "a", "r", " ", "v", " ", "=", " ", "1", " ", "|", "|", " ", "2">>,
    \* 9: function h(a, b) / var e = a / { / var a = 2 / } / var d = a / end
    <<"f", "u", "n", "c", "t", "i", "o", "n", " ", "h", "(", "a", ",", " ", "b", ")", "\n", "v", "a", "r", " ", "e", " ", "=", " ", "a", "\n", "{", "\n", "v", "a", "r", " ", "a", " ", "=", " ", "2", "\n", "}", "\n", "v", "a", "r", " ", "d", " ", "=", " ", "a", "\n", "e", "n", "d">>,
    \* 10: var u = x - y * 2
    <<"v", "a", "r", " ", "u", " ", "=", " ", "x", " ", "-", " ", "y", " ", "*", " ", "2">>
  >>

MaxIrFragments == 2

RECURSIVE JoinIrLines(_)
JoinIrLines(prog) ==
    IF Len(prog) = 0 THEN <<>>
    ELSE IF Len(prog) = 1 THEN IrFragments[prog[1]]
    ELSE (IrFragments[prog[1]] \o <<"\n">>) \o JoinIrLines(Tail(prog))

IrPrograms == UNION {[1..n -> 1..Len(IrFragments)] : n \in 1..MaxIrFragments}

IrSources == {JoinIrLines(prog) : prog \in IrPrograms}

\* lines that fail to parse and well-formed simple statements
SyncFragments ==
  <<
    \* 1: var = 1
    <<"v", "a", "r", " ", "=", " ", "1">>,
    \* 2: )
    <<")">>,
    \* 3: x = )
    <<"x", " ", "=", " ", ")">>,
    \* 4: var 1 var z = 3
    <<"v", "a", "r", " ", "1", " ", "v", "a", "r", " ", "z", " ", "=", " ", "3">>,
    \* 5: var y = 2
    <<"v", "a", "r", " ", "y", " ", "=", " ", "2">>,
    \* 6: 1 + ; var w = 4
    <<"1", " ", "+", " ", ";", " ", "v", "a", "r", " ", "w", " ", "=", " ", "4">>,
    \* 7: ( var break
    <<"(", " ", "v", "a", "r", " ", "b", "r", "e", "a", "k">>,
    \* 8: y = 3
    <<"y", " ", "=", " ", "3">>,
    \* 9: var = 1 ; ) var v = 5
    <<"v", "a", "r", " ", "=", " ", "1", " ", ";", " ", ")", " ", "v", "a", "r", " ", "v", " ", "=", " ", "5">>,
    \* 10: (
    <<"(">>,
    \* 11: 1 + var q = 6
    <<"1", " ", "+", " ", "v", "a", "r", " ", "q", " ", "=", " ", "6">>
  >>

MaxSyncFragments == 2

RECURSIVE JoinSyncLines(_)
JoinSyncLines(prog) ==
    IF Len(prog) = 0 THEN <<>>
    ELSE IF Len(prog) = 1 THEN SyncFragments[prog[1]]
    ELSE (SyncFragments[prog[1]] \o <<"\n">>) \o JoinSyncLines(Tail(prog))

SyncPrograms == UNION {[1..n -> 1..Len(SyncFragments)] : n \in 1..MaxSyncFragments}

SyncSources == {JoinSyncLines(prog) : prog \in SyncPrograms}

\* unbalanced calls, lists and blocks, one line each
TermFragments ==
  <<
    \* 1: f(1, 2
    <<"f", "(", "1", ",", " ", "2">>,
    \* 2: )
    <<")">>,
    \* 3: {
    <<"{">>,
    \* 4: }
    <<"}">>,
    \* 5: while x
    <<"w", "h", "i", "l", "e", " ", "x">>,
    \* 6: end
    <<"e", "n", "d">>,
    \* 7: [1, 2
    <<"[", "1", ",", " ", "2">>,
    \* 8: f(1,)
    <<"f", "(", "1", ",", ")">>,
    \* 9: g(
    <<"g", "(">>,
    \* 10: var y = [2
    <<"v", "a", "r", " ", "y", " ", "=", " ", "[", "2">>
  >>

MaxTermFragments == 2

RECURSIVE JoinTermLines(_)
JoinTermLines(prog) ==
    IF Len(prog) = 0 THEN <<>>
    ELSE IF Len(prog) = 1 THEN TermFragments[prog[1]]
    ELSE (TermFragments[prog[1]] \o <<"\n">>) \o JoinTermLines(Tail(prog))

TermPrograms == UNION {[1..n -> 1..Len(TermFragments)] : n \in 1..MaxTermFragments}

TermSources == {JoinTermLines(prog) : prog \in TermPrograms}

\* if statements with elif and else branches inside while, for and function blocks
ElifFragments ==
  <<
    \* 1: if a / elif b / end
    <<"i", "f", " ", "a", "\n", "e", "l", "i", "f", " ", "b", "\n", "e", "n", "d">>,
    \* 2: while x / if a / elif b / end end
    <<"w", "h", "i", "l", "e", " ", "x", "\n", "i", "f", " ", "a", "\n", "e", "l", "i", "f", " ", "b", "\n", "e", "n", "d", " ", "e", "n", "d">>,
    \* 3: var y = 1
    <<"v", "a", "r", " ", "y", " ", "=", " ", "1">>,
    \* 4: while x / if a / end end
    <<"w", "h", "i", "l", "e", " ", "x", "\n", "i", "f", " ", "a", "\n", "e", "n", "d", " ", "e", "n", "d">>,
    \* 5: function f() / if a / elif b / elif d / end end
    <<"f", "u", "n", "c", "t", "i", "o", "n", " ", "f", "(", ")", "\n", "i", "f", " ", "a", "\n", "e", "l", "i", "f", " ", "b", "\n", "e", "l", "i", "f", " ", "d", "\n", "e", "n", "d", " ", "e", "n", "d">>,
    \* 6: for i in range(1, 3) / if a / elif b / end / end
    <<"f", "o", "r", " ", "i", " ", "i", "n", " ", "r", "a", "n", "g", "e", "(", "1", ",", " ", "3", ")", "\n", "i", "f", " ", "a", "\n", "e", "l", "i", "f", " ", "b", "\n", "e", "n", "d", "\n", "e", "n", "d">>,
    \* 7: while x / if a / else / end end
    <<"w", "h", "i", "l", "e", " ", "x", "\n", "i", "f", " ", "a", "\n", "e", "l", "s", "e", "\n", "e", "n", "d", " ", "e", "n", "d">>,
    \* 8: y = 2
    <<"y", " ", "=", " ", "2">>,
    \* 9: if a / elif b / else / end
    <<"i", "f", " ", "a", "\n", "e", "l", "i", "f", " ", "b", "\n", "e", "l", "s", "e", "\n", "e", "n", "d">>,
    \* 10: function g() / if a / elif b / end end
    <<"f", "u", "n", "c", "t", "i", "o", "n", " ", "g", "(", ")", "\n", "i", "f", " ", "a", "\n", "e", "l", "i", "f", " ", "b", "\n", "e", "n", "d", " ", "e", "n", "d">>
  >>

MaxElifFragments == 2

RECURSIVE JoinElifLines(_)
JoinElifLines(prog) ==
    IF Len(prog) = 0 THEN <<>>
    ELSE IF Len(prog) = 1 THEN ElifFragments[prog[1]]
    ELSE (ElifFragments[prog[1]] \o <<"\n">>) \o JoinElifLines(Tail(prog))

ElifPrograms == UNION {[1..n -> 1..Len(ElifFragments)] : n \in 1..MaxElifFragments}

ElifSources == {JoinElifLines(prog) : prog \in ElifPrograms}

(***************************************************************************)
(* The driver compile_to_native and the steps of its phases                *)
(***************************************************************************)
\* what semantic_analyze and semantic_check_types return after the walk
semantic_analyze_return(a) == 1

semantic_check_types_return(a) == 1

NewLexer == [ptr |-> 1, line |-> 1, column |-> 1, error_count |-> 0]

NewParser == [current |-> 1, had_error |-> 0, panic_mode |-> 0, msgs |-> <<>>]

NewAnalyzer ==
    [table |-> <<>>, current_scope |-> 0, types |-> [t \in {} |-> "TYPE_UNKNOWN"],
     errors |-> <<>>, calls |-> <<>>, pass |-> 0]

Start ==
    /\ pc = "lex"
    /\ L = NewLexer
    /\ tokens = <<>>
    /\ P = NewParser
    /\ root = Nil
    /\ S = NewAnalyzer
    /\ stmt = 0
    /\ result = [semantic_analyze |-> -1, semantic_check_types |-> -1]
    /\ M = ir_module_create

\* whole programs
Init == source \in ProgramSources /\ Start

\* texts for the lexer
InitLex == source \in LexSources /\ Start

\* operator chains for the expression parser
InitPrec == source \in PrecSources /\ Start

\* typed binary expressions for the analyzer
InitExpr == source \in ExprSources /\ Start

\* function declarations and calls
InitFunc == source \in FuncSources /\ Start

\* control flow and string literals
InitLower == source \in LowerSources /\ Start

\* line ends among strings and comments
InitNl == source \in NlSources /\ Start

\* block comments
InitComment == source \in CommentSources /\ Start

\* scopes
InitScope == source \in ScopeSources /\ Start

\* lowering of statements and expressions
InitIr == source \in IrSources /\ Start

\* error recovery
InitSync == source \in SyncSources /\ Start

\* unbalanced calls, lists and blocks
InitTerm == source \in TermSources /\ Start

\* if statements inside blocks
InitElif == source \in ElifSources /\ Start

\* lexer_tokenize: one iteration of while (peek(&L))
LexerIteration ==
    /\ pc = "lex"
    /\ peek(L) # NUL
    /\ LET r == lex_iteration(L) IN
          /\ L' = r.l
          /\ tokens' = tokens \o r.push
    /\ UNCHANGED <<source, pc, P, root, S, stmt, result, M>>

\* lexer_tokenize: the loop has ended, push the EOF sentinel and return
LexerEof ==
    /\ pc = "lex"
    /\ peek(L) = NUL
    /\ tokens' = Append(tokens, make_token("TOKEN_EOF", NULLSTR, L.line, L.column))
    /\ pc' = "parse_begin"
    /\ UNCHANGED <<source, L, P, root, S, stmt, result, M>>

\* parser_parse: the state and the root node
ParserBegin ==
    /\ pc = "parse_begin"
    /\ P' = NewParser
    /\ root' = create_node("AST_PROGRAM", cur(NewParser), <<"p","r","o","g","r","a","m">>)
    /\ pc' = "parse"
    /\ UNCHANGED <<source, L, tokens, S, stmt, result, M>>

\* parser_parse: one iteration of while (!match(&state, TOKEN_EOF))
ParserIteration ==
    /\ pc = "parse"
    /\ ~match(P, "TOKEN_EOF")
    /\ LET r == parse_iteration(P) IN
          /\ P' = r.p
          /\ root' = add_child(root, r.node)
    /\ UNCHANGED <<source, pc, L, tokens, S, stmt, result, M>>

\* variant: parser_parse returns NULL when an error was reported
ParserEnd_null_on_error ==
    /\ pc = "parse"
    /\ match(P, "TOKEN_EOF")
    /\ pc' = "analyze"
    /\ root' = IF P.had_error = 1 THEN Nil ELSE root
    /\ S' = [create_symbol_table(S) EXCEPT !.pass = 1]
    /\ stmt' = 1
    /\ UNCHANGED <<source, L, tokens, P, result, M>>

\* parser_parse returns the root; the driver calls semantic_analyze
ParserEnd ==
    /\ pc = "parse"
    /\ match(P, "TOKEN_EOF")
    /\ pc' = "analyze"
    /\ S' = [create_symbol_table(S) EXCEPT !.pass = 1]
    /\ stmt' = 1
    /\ UNCHANGED <<source, L, tokens, P, root, result, M>>

\* case AST_PROGRAM of check_statement_type: one statement of the loop
CheckStatement ==
    /\ pc \in {"analyze", "check_types"}
    /\ stmt <= Len(root.children)
    /\ S' = check("check_statement_type", <<root.children, stmt, S, 0>>)
    /\ stmt' = stmt + 1
    /\ UNCHANGED <<source, pc, L, tokens, P, root, result, M>>

\* semantic_analyze returns; the driver goes on to semantic_check_types
\* unless the result is 0
SemanticAnalyzeReturn ==
    /\ pc = "analyze"
    /\ stmt > Len(root.children)
    /\ result' = [result EXCEPT !.semantic_analyze = semantic_analyze_return(S)]
    /\ IF semantic_analyze_return(S) = 0
       THEN pc' = "failed" /\ UNCHANGED <<S, stmt>>
       ELSE /\ pc' = "check_types"
            /\ S' = [create_symbol_table(S) EXCEPT !.pass = 2]
            /\ stmt' = 1
    /\ UNCHANGED <<source, L, tokens, P, root, M>>

\* semantic_check_types returns; the driver goes on to IR generation
\* unless the result is 0
SemanticCheckTypesReturn ==
    /\ pc = "check_types"
    /\ stmt > Len(root.children)
    /\ result' = [result EXCEPT !.semantic_check_types = semantic_check_types_return(S)]
    /\ pc' = IF semantic_check_types_return(S) = 0 THEN "failed" ELSE "lower"
    /\ UNCHANGED <<source, L, tokens, P, root, S, stmt, M>>

\* the driver calls ir_generate_from_ast on the root
IrGenerateFromAst ==
    /\ pc = "lower"
    /\ M' = ir_generate_from_ast(root, S)
    /\ pc' = "lowered"
    /\ UNCHANGED <<source, L, tokens, P, root, S, stmt, result>>

Next ==
    \/ LexerIteration
    \/ LexerEof
    \/ ParserBegin
    \/ ParserIteration
    \/ ParserEnd
    \/ CheckStatement
    \/ SemanticAnalyzeReturn
    \/ SemanticCheckTypesReturn
    \/ IrGenerateFromAst

Spec == Init /\ [][Next]_vars

SpecLex == InitLex /\ [][Next]_vars

SpecPrec == InitPrec /\ [][Next]_vars

SpecExpr == InitExpr /\ [][Next]_vars

SpecFunc == InitFunc /\ [][Next]_vars

SpecLower == InitLower /\ [][Next]_vars

SpecNl == InitNl /\ [][Next]_vars

SpecComment == InitComment /\ [][Next]_vars

SpecScope == InitScope /\ [][Next]_vars

SpecIr == InitIr /\ [][Next]_vars

SpecSync == InitSync /\ [][Next]_vars

SpecTerm == InitTerm /\ [][Next]_vars

SpecElif == InitElif /\ [][Next]_vars

(***************************************************************************)
(* Properties                                                              *)
(***************************************************************************)
TypeOK ==
    pc \in {"lex", "parse_begin", "parse", "analyze", "check_types", "lower", "lowered", "failed"}

\* parser_parse has returned
Parsed == pc \in {"analyze", "check_types", "lower", "lowered", "failed"}

\* the walk of semantic_analyze is over and its table not yet freed
AnalyzeDone == pc = "analyze" /\ stmt > Len(root.children)

\* the compile_error lines of one pass (1: semantic_analyze,
\* 2: semantic_check_types)
ErrorsOf(k) == SelectSeq(S.errors, LAMBDA e : e.pass = k)

ErrorsWith(k, message) == SelectSeq(S.errors, LAMBDA e : e.pass = k /\ e.msg = message)

\* every node of a tree
RECURSIVE Nodes(_)
Nodes(n) ==
    IF n = Nil THEN {}
    ELSE {n} \cup Nodes(n.left) \cup Nodes(n.right) \cup Nodes(n.condition)
             \cup Nodes(n.body)
             \cup UNION {Nodes(n.children[i]) : i \in 1..Len(n.children)}

\* C1: when lexer_tokenize has returned, the last token is EOF and no token
\* before it is; until then no token is EOF.  An iteration that meets a
\* character that starts no token adds one to the error count, pushes no
\* token, steps over that character and the scan goes on.
EofLast ==
    IF pc = "lex"
    THEN \A i \in 1..Len(tokens) : tokens[i].type # "TOKEN_EOF"
    ELSE /\ Len(tokens) >= 1
         /\ tokens[Len(tokens)].type = "TOKEN_EOF"
         /\ \A i \in 1..(Len(tokens) - 1) : tokens[i].type # "TOKEN_EOF"

UnrecognizedSkipped ==
    LET l1 == skip_whitespace_and_comments(L) IN
    (pc = "lex" /\ peek(L) # NUL /\ peek(l1) = "$")
        => /\ tokens' = tokens
           /\ L'.error_count = l1.error_count + 1
           /\ L'.ptr = l1.ptr + 1
           /\ pc' = "lex"

C1_EofLastUnrecognizedSkipped == []EofLast /\ [][UnrecognizedSkipped]_vars

\* "$e": one error, then the identifier and EOF
C1_Witness ==
    /\ pc = "parse_begin"
    /\ source = <<"$", "e">>
    /\ L.error_count = 1
    /\ Len(tokens) = 2
    /\ tokens[1].type = "TOKEN_IDENTIFIER"

\* C2: semantic_analyze and semantic_check_types return 0 exactly when the
\* walk reported an error, and IR generation is reached only without errors.
C2_FailureReported ==
    /\ result.semantic_analyze = 1 => ErrorsOf(1) = <<>>
    /\ result.semantic_analyze = 0 => ErrorsOf(1) # <<>>
    /\ result.semantic_check_types = 1 => ErrorsOf(2) = <<>>
    /\ result.semantic_check_types = 0 => ErrorsOf(2) # <<>>
    /\ pc = "lower" => S.errors = <<>>

\* binding strength of the binary operators, as the grammar orders them
Prec(op) ==
    CASE op \in {<<"*">>, <<"/">>, <<"%">>} -> 6
      [] op \in {<<"+">>, <<"-">>} -> 5
      [] op \in {<<"<">>, <<">">>, <<"<", "=">>, <<">", "=">>} -> 4
      [] op \in {<<"=", "=">>, <<"!", "=">>} -> 3
      [] op = <<"&", "&">> -> 2
      [] op = <<"|", "|">> -> 1

\* the tokens of an expression tree, left to right
RECURSIVE InOrder(_)
InOrder(n) ==
    IF n = Nil THEN <<>>
    ELSE IF n.type = "AST_BINARY_EXPR" THEN (InOrder(n.left) \o <<n.tok>>) \o InOrder(n.right)
    ELSE <<n.tok>>

\* an operand that is itself a binary operation binds at least as tightly
\* as its parent on the left, and more tightly on the right
RECURSIVE PrecOrdered(_)
PrecOrdered(n) ==
    n.type = "AST_BINARY_EXPR" =>
        /\ n.left # Nil /\ n.right # Nil
        /\ n.left.type = "AST_BINARY_EXPR" => Prec(n.left.value) >= Prec(n.value)
        /\ n.right.type = "AST_BINARY_EXPR" => Prec(n.right.value) > Prec(n.value)
        /\ PrecOrdered(n.left)
        /\ PrecOrdered(n.right)

\* C3: "x = 1 op 2 op 3 ..." parses without error to one assignment to x
\* whose value holds every operand and operator in source order, each
\* operator of higher precedence being an operand of the adjacent operator
\* of lower precedence; so "x = 1 + 2 * 3" is x = (1 + (2 * 3)).
C3_PrecedenceShapesTree ==
    (Parsed /\ Head(source) = "x") =>
        /\ P.had_error = 0
        /\ Len(root.children) = 1
        /\ LET assign == root.children[1] IN
              /\ assign.type = "AST_ASSIGN_STMT"
              /\ assign.left.type = "AST_IDENTIFIER"
              /\ assign.left.value = <<"x">>
              /\ InOrder(assign.right) = [i \in 1..(Len(tokens) - 3) |-> i + 2]
              /\ PrecOrdered(assign.right)

C3_Witness ==
    /\ Parsed
    /\ source = <<"x", " ", "=", " ", "1", " ", "+", " ", "2", " ", "*", " ", "3">>
    /\ root.children[1].right.value = <<"+">>
    /\ root.children[1].right.left.value = <<"1">>
    /\ root.children[1].right.right.value = <<"*">>
    /\ root.children[1].right.right.left.value = <<"2">>
    /\ root.children[1].right.right.right.value = <<"3">>

\* C4: "a = b = c" parses without error to a = (b = c): one assignment to a
\* whose value is the assignment of c to b.
C4_AssignmentChain ==
    (Parsed /\ source = <<"a", " ", "=", " ", "b", " ", "=", " ", "c">>) =>
        /\ P.had_error = 0
        /\ Len(root.children) = 1
        /\ LET outer == root.children[1] IN
              /\ outer.type = "AST_ASSIGN_STMT"
              /\ outer.left.type = "AST_IDENTIFIER" /\ outer.left.value = <<"a">>
              /\ outer.right.type = "AST_ASSIGN_STMT"
              /\ outer.right.left.type = "AST_IDENTIFIER"
              /\ outer.right.left.value = <<"b">>
              /\ outer.right.right.type = "AST_IDENTIFIER"
              /\ outer.right.right.value = <<"c">>

\* C5: in "var x = 1 / function f() / var x = "hi" / end / var y = x" the
\* declaration of x in the function body is no redeclaration error, it
\* resolves with type String, and the x read after the function resolves to
\* the outer x, of type Int.
C5_ShadowingResolves ==
    (AnalyzeDone /\ source = Fragments[3]) =>
        /\ ErrorsOf(1) = <<>>
        /\ node_data_type(S, root.children[2].body.children[1]) = "TYPE_STRING"
        /\ node_data_type(S, root.children[3].right) = "TYPE_INT"

\* C6: 1 + 2.5 resolves to Float, 1 + 2 to Int, and "a" + 1 to String with
\* no type error.
C6_PlusResultTypes ==
    AnalyzeDone =>
        LET sum == root.children[1].right IN
        /\ source = ExprSource(1, 4, 3) =>
               node_data_type(S, sum) = "TYPE_FLOAT" /\ ErrorsOf(1) = <<>>
        /\ source = ExprSource(1, 4, 2) =>
               node_data_type(S, sum) = "TYPE_INT" /\ ErrorsOf(1) = <<>>
        /\ source = ExprSource(4, 4, 1) =>
               node_data_type(S, sum) = "TYPE_STRING" /\ ErrorsOf(1) = <<>>

\* no statement list of the program declares a name twice
NoDuplicateDeclaration ==
    \A n \in Nodes(root) : \A i, j \in 1..Len(n.children) :
        (/\ i < j
         /\ n.children[i].type \in {"AST_VAR_DECL", "AST_CONST_DECL", "AST_FUNCTION_DECL"}
         /\ n.children[j].type \in {"AST_VAR_DECL", "AST_CONST_DECL", "AST_FUNCTION_DECL"})
            => n.children[i].value # n.children[j].value

\* C7: "var x = 1 / var x = 2" gives exactly one "already declared" error in
\* one check and the second declaration leaves the table as the first made
\* it; a program in which no scope declares a name twice gives no such error.
C7_OneAlreadyDeclared ==
    AnalyzeDone =>
        /\ source = JoinLines(<<1, 2>>) =>
              /\ Len(ErrorsWith(1, "Variable already declared in this scope")) = 1
              /\ Len(S.calls) = 2
              /\ S.calls[2].post.table = S.calls[2].pre.table
              /\ Len(S.table) = 1
              /\ S.table[1].data_type = "TYPE_INT"
              /\ S.table[1].is_initialized
              /\ ~S.table[1].is_constant
        /\ NoDuplicateDeclaration =>
              ErrorsWith(1, "Variable already declared in this scope") = <<>>

\* C8: "var r = z op n" with z declared nowhere, op an arithmetic or
\* comparison operator and n a number gives exactly one error, the undefined
\* variable z; the type of the node z is Unknown.
C8_OneUndefinedError ==
    AnalyzeDone =>
        \A op \in 1..11, n \in 1..3 :
            source = ExprSource(5, op, n) =>
                /\ Len(ErrorsOf(1)) = 1
                /\ ErrorsOf(1)[1].msg = "Undefined variable"
                /\ ErrorsOf(1)[1].name = <<"z">>
                /\ node_data_type(S, root.children[1].right.left) = "TYPE_UNKNOWN"

\* C9: in a program that starts with "const PI = 3.14", every assignment to
\* PI is rejected with a const error on its line, each rejection leaves the
\* table as it was, and PI stays a const, initialized Float.
C9_ConstAssignRejected ==
    (/\ AnalyzeDone
     /\ Len(root.children) >= 1
     /\ root.children[1].type = "AST_CONST_DECL"
     /\ root.children[1].value = <<"P", "I">>
     /\ root.children[1].right # Nil) =>
        /\ \A n \in Nodes(root) :
              (/\ n.type = "AST_ASSIGN_STMT"
               /\ n.left.type = "AST_IDENTIFIER"
               /\ n.left.value = <<"P", "I">>) =>
                  \E i \in 1..Len(S.errors) :
                      /\ S.errors[i].pass = 1
                      /\ S.errors[i].msg = "Cannot assign to const variable"
                      /\ S.errors[i].name = <<"P", "I">>
                      /\ S.errors[i].line = n.line
        /\ \A k \in 1..Len(S.calls) :
              (/\ S.calls[k].node.type = "AST_ASSIGN_STMT"
               /\ S.calls[k].node.left.type = "AST_IDENTIFIER"
               /\ S.calls[k].node.left.value = <<"P", "I">>) =>
                  S.calls[k].post.table = S.calls[k].pre.table
        /\ S.table[1].name = <<"P", "I">>
        /\ S.table[1].is_constant
        /\ S.table[1].is_initialized
        /\ S.table[1].data_type = "TYPE_FLOAT"

\* the only declaration of its name in the whole program
DeclaredOnce(n) ==
    \A m \in Nodes(root) :
        (m.type \in {"AST_VAR_DECL", "AST_CONST_DECL", "AST_FUNCTION_DECL"}
            /\ m.value = n.value) => m = n

\* C10: every const declaration without initializer, even of a name that
\* nothing else in the program declares, is answered with the
\* missing-initializer error, and after it no entry of the table with that
\* name is marked initialized.
C10_ConstNeedsInitializer ==
    AnalyzeDone =>
        \A n \in Nodes(root) :
            (n.type = "AST_CONST_DECL" /\ n.right = Nil /\ DeclaredOnce(n)) =>
                \E k \in 1..Len(S.calls) :
                    LET call == S.calls[k] IN
                    /\ call.node = n
                    /\ call.post.errors =
                           Append(call.pre.errors,
                                  [pass |-> 1, msg |-> "Const declaration requires initializer",
                                   name |-> n.value, line |-> n.line])
                    /\ \A e \in 1..Len(call.post.table) :
                           call.post.table[e].name = n.value
                               => ~call.post.table[e].is_initialized

\* no two entries of one scope level have the same name
UniqueNames(table) ==
    \A i, j \in 1..Len(table) :
        (i # j /\ table[i].scope_level = table[j].scope_level)
            => table[i].name # table[j].name

\* C11: at every point of the analysis (between the statements of the
\* program, and before and after every statement checked inside them) no two
\* entries of the symbol table with the same scope_level have the same name.
C11_UniqueNamesPerScope ==
    /\ UniqueNames(S.table)
    /\ \A k \in 1..Len(S.calls) :
          UniqueNames(S.calls[k].pre.table) /\ UniqueNames(S.calls[k].post.table)

\* C12: from the moment parser_parse has made the root, and when it has
\* returned, the root is a Program node; an iteration of the statement loop
\* whose statement fails to parse leaves the root's children as they are,
\* any other appends the statement; the return hands the root over unchanged.
C12_RootAlwaysReturned ==
    /\ [](pc \notin {"lex", "parse_begin"} => root.type = "AST_PROGRAM")
    /\ [][(pc = "parse" /\ pc' = "parse") =>
             LET r == parse_iteration(P) IN
             /\ root'.type = "AST_PROGRAM"
             /\ root'.children = IF r.node = Nil THEN root.children
                                 ELSE Append(root.children, r.node)]_vars
    /\ [][(pc = "parse" /\ pc' # "parse") => root' = root]_vars

\* parser_parse has returned after errors, every statement failed to parse
\* and the root has no children
C12_Witness ==
    /\ Parsed
    /\ Len(tokens) >= 2
    /\ P.had_error = 1
    /\ root.type = "AST_PROGRAM"
    /\ root.children = <<>>

\* the node has the children its kind requires
Complete(n) ==
    /\ n.type = "AST_BINARY_EXPR" => (n.left # Nil /\ n.right # Nil)
    /\ n.type = "AST_ASSIGN_STMT" => (n.left # Nil /\ n.right # Nil)
    /\ n.type = "AST_UNARY_EXPR" => n.right # Nil
    /\ n.type = "AST_TERNARY_EXPR" => (n.condition # Nil /\ n.left # Nil /\ n.right # Nil)
    /\ n.type = "AST_ARRAY_ACCESS" => (n.left # Nil /\ n.right # Nil)

\* C13: an iteration of the statement loop during which a parse error is
\* reported attaches nothing to the root, and every node reachable from the
\* returned root has all the children its kind requires.
C13_NoPartialNode ==
    /\ [][(pc = "parse" /\ pc' = "parse" /\ Len(P'.msgs) > Len(P.msgs))
             => root' = root]_vars
    /\ [](Parsed => \A n \in Nodes(root) : Complete(n))

\* the lowering has returned the module
Lowered == pc = "lowered"

\* the names of the IRFunctions of the module
FunctionNames == {M.functions[f].name : f \in 1..Len(M.functions)}

\* the names the program declares as top-level functions
DeclaredFunctions ==
    {root.children[i].value :
        i \in {j \in 1..Len(root.children) : root.children[j].type = "AST_FUNCTION_DECL"}}

\* C15: the lowered module has an IRFunction for every top-level function
\* declaration of the parsed program whose name is not main, and every CALL
\* of the module to a function the program declares names an IRFunction of
\* the module.
C15_FunctionShells ==
    Lowered =>
        /\ \A name \in DeclaredFunctions : name # <<"m", "a", "i", "n">> => name \in FunctionNames
        /\ \A f \in 1..Len(M.functions) :
              \A k \in 1..Len(M.functions[f].instructions) :
                  LET instr == M.functions[f].instructions[k] IN
                  (instr.opcode = "IR_CALL" /\ instr.dest.label \in DeclaredFunctions)
                      => instr.dest.label \in FunctionNames

\* the instructions i1 < i2 < i2 + 1 < i4 of the list are the jumps and labels
\* of one if statement with an else branch
IfElseAt(instrs, i1, i2, i4) ==
    /\ i1 < i2 /\ i2 + 1 < i4 /\ i4 <= Len(instrs)
    /\ instrs[i1].opcode = "IR_JUMP_IF_NOT"
    /\ instrs[i2].opcode = "IR_JUMP"
    /\ instrs[i2 + 1].opcode = "IR_LABEL"
    /\ instrs[i2 + 1].dest.label = instrs[i1].dest.label
    /\ instrs[i4].opcode = "IR_LABEL"
    /\ instrs[i4].dest.label = instrs[i2].dest.label
    /\ instrs[i2].dest.label # instrs[i1].dest.label

\* the places of the module where an if statement with an else branch was
\* lowered
IfElsePlaces ==
    {x \in UNION {{<<f, i1, i2, i4>> :
                      i1 \in 1..Len(M.functions[f].instructions),
                      i2 \in 1..Len(M.functions[f].instructions),
                      i4 \in 1..Len(M.functions[f].instructions)} :
                  f \in 1..Len(M.functions)} :
        IfElseAt(M.functions[x[1]].instructions, x[2], x[3], x[4])}

\* the LABEL instructions of the module
Labels ==
    UNION {{<<f, k>> : k \in {i \in 1..Len(M.functions[f].instructions) :
                                 M.functions[f].instructions[i].opcode = "IR_LABEL"}} :
           f \in 1..Len(M.functions)}

\* the if statements of the program that have an else branch
IfElseNodes == {n \in Nodes(root) : n.type = "AST_IF_STMT" /\ n.right # Nil}

\* C14: every if statement with an else branch of the program is lowered to
\* JUMP_IF_NOT else, then-branch, JUMP end, LABEL else, else-branch,
\* LABEL end in one function's instruction list, and no two LABEL instructions
\* of the module carry the same text.
C14_IfElseLowering ==
    Lowered =>
        /\ Cardinality(IfElsePlaces) >= Cardinality(IfElseNodes)
        /\ \A x, y \in Labels :
              x # y => M.functions[x[1]].instructions[x[2]].dest.label
                          # M.functions[y[1]].instructions[y[2]].dest.label

\* the string literals of the program, as the parser made them
StringNodes == {n \in Nodes(root) : n.type = "AST_LITERAL" /\ n.data_type = "TYPE_STRING"}

\* the instructions of the module that load a string-pool label
PoolLoads ==
    UNION {{<<f, k>> : k \in {i \in 1..Len(M.functions[f].instructions) :
                                 /\ M.functions[f].instructions[i].opcode = "IR_CONST_INT"
                                 /\ M.functions[f].instructions[i].src1.kind = "IR_VAL_LABEL"}} :
           f \in 1..Len(M.functions)}

\* the label is .LCk of an entry k of the pool that holds the text
PoolEntry(label, text) ==
    \E k \in 0..(M.string_count - 1) :
        /\ label = <<".", "L", "C">> \o Dec(k)
        /\ k + 1 <= Len(M.string_literals)
        /\ M.string_literals[k + 1] = text

\* C16: every string literal of the program is lowered to a constant load of
\* a label .LCk, 0 <= k < string_count, whose pool entry k is the literal's
\* text; every occurrence has a load of its own, and every load of a pool
\* label names an entry of the pool.
C16_StringPool ==
    Lowered =>
        /\ \A n \in StringNodes :
              \E x \in PoolLoads :
                  PoolEntry(M.functions[x[1]].instructions[x[2]].src1.label, n.value)
        /\ Cardinality(PoolLoads) >= Cardinality(StringNodes)
        /\ \A x \in PoolLoads :
              \E n \in StringNodes :
                  PoolEntry(M.functions[x[1]].instructions[x[2]].src1.label, n.value)

\* the number of line ends among the first n characters of the source
RECURSIVE NewlinesBefore(_)
NewlinesBefore(n) ==
    IF n <= 0 THEN 0
    ELSE NewlinesBefore(n - 1) + (IF source[n] = "\n" THEN 1 ELSE 0)

\* C17: an iteration of the lexer that finds a line end after the blanks and
\* comments it skips pushes exactly one NEWLINE token and steps over that
\* one character; and every NEWLINE token pushed carries as line 1 plus the
\* number of line ends that precede its character in the source.
C17_NewlineTokens ==
    /\ [][(pc = "lex" /\ peek(L) # NUL /\ peek(skip_whitespace_and_comments(L)) = "\n") =>
             /\ Len(tokens') = Len(tokens) + 1
             /\ tokens'[Len(tokens')].type = "TOKEN_NEWLINE"
             /\ L'.ptr = skip_whitespace_and_comments(L).ptr + 1]_vars
    /\ [][(pc = "lex" /\ pc' = "lex" /\ Len(tokens') > Len(tokens)
             /\ tokens'[Len(tokens')].type = "TOKEN_NEWLINE") =>
             tokens'[Len(tokens')].line = 1 + NewlinesBefore(L'.ptr - 2)]_vars

\* the position after the */ that closes a comment of the given depth entered
\* before position i: each /* adds a level, each */ removes one; 0 when the
\* source ends first
RECURSIVE CloseAt(_, _)
CloseAt(i, depth) ==
    IF depth = 0 THEN i
    ELSE IF i > Len(source) THEN 0
    ELSE IF i < Len(source) /\ source[i] = "/" /\ source[i + 1] = "*"
    THEN CloseAt(i + 2, depth + 1)
    ELSE IF i < Len(source) /\ source[i] = "*" /\ source[i + 1] = "/"
    THEN CloseAt(i + 2, depth - 1)
    ELSE CloseAt(i + 1, depth)

\* the types and values of a sequence of tokens
Shapes(toks) == [i \in 1..Len(toks) |-> <<toks[i].type, toks[i].value>>]

\* C18: an iteration of the lexer that starts at a block comment skips to
\* the */ that brings the nesting depth back to zero and goes on as an
\* iteration started there would: same tokens, same place, same errors.  A
\* comment still open at the end of the input adds one error, pushes no
\* token and leaves the lexer at the end.  The text
\* /* a /* b */ c */ var x = 1 gives var, x, =, 1, EOF.
C18_NestedComments ==
    /\ [][(pc = "lex" /\ peek(L) = "/" /\ peek_next(L) = "*") =>
             LET close == CloseAt(L.ptr + 2, 1) IN
             IF close = 0
             THEN /\ tokens' = tokens
                  /\ L'.error_count = L.error_count + 1
                  /\ L'.ptr = Len(source) + 1
             ELSE LET after == lex_iteration([L EXCEPT !.ptr = close]) IN
                  /\ Len(tokens') = Len(tokens) + Len(after.push)
                  /\ Shapes(SubSeq(tokens', Len(tokens) + 1, Len(tokens'))) = Shapes(after.push)
                  /\ L'.ptr = after.l.ptr
                  /\ L'.error_count = after.l.error_count]_vars
    /\ []((source = NestedCommentText /\ pc # "lex") =>
             Shapes(tokens) = <<<<"TOKEN_VAR", <<"v", "a", "r">>>>,
                                <<"TOKEN_IDENTIFIER", <<"x">>>>,
                                <<"TOKEN_OPERATOR", <<"=">>>>,
                                <<"TOKEN_NUMBER", <<"1">>>>,
                                <<"TOKEN_EOF", NULLSTR>>>>)

\* a comment with a comment nested in it has been skipped and the letter
\* after it has become the only token before EOF
C18_Witness ==
    /\ source = <<"/", "*", "/", "*", "*", "/", "*", "/", "e">>
    /\ pc = "parse_begin"
    /\ Shapes(tokens) = <<<<"TOKEN_IDENTIFIER", <<"e">>>>, <<"TOKEN_EOF", NULLSTR>>>>
    /\ L.error_count = 0

\* the top-level function declarations of the program
FunctionDecls ==
    {root.children[i] :
        i \in {j \in 1..Len(root.children) : root.children[j].type = "AST_FUNCTION_DECL"}}

\* the calls in the body of a function declaration
CallsIn(fn) == {c \in Nodes(fn.body) : c.type = "AST_CALL_EXPR"}

\* C19: a call in a function body to the function itself, and a call to
\* another top-level function that calls back, gets no undefined-function
\* error.
C19_RecursionResolves ==
    AnalyzeDone =>
        \A fn \in FunctionDecls :
            \A c \in CallsIn(fn) :
                (\/ c.value = fn.value
                 \/ \E other \in FunctionDecls :
                        /\ other.value = c.value
                        /\ \E back \in CallsIn(other) : back.value = fn.value) =>
                    ~\E e \in 1..Len(S.errors) :
                        /\ S.errors[e].msg = "Undefined function"
                        /\ S.errors[e].name = c.value
                        /\ S.errors[e].line = c.line

\* the number of errors the first pass reported with this message for this
\* function name on this line
CountErrors(msg, name, line) ==
    Cardinality({e \in 1..Len(S.errors) : /\ S.errors[e].pass = 1
                                          /\ S.errors[e].msg = msg
                                          /\ S.errors[e].name = name
                                          /\ S.errors[e].line = line})

\* the calls of a function that is declared exactly once, on a line after the
\* line of the declaration or inside the function's own body
ResolvedCalls ==
    {cf \in {c \in Nodes(root) : c.type = "AST_CALL_EXPR"} \X FunctionDecls :
        /\ cf[1].value = cf[2].value
        /\ cf[1].line >= cf[2].line
        /\ \A other \in FunctionDecls : other.value = cf[2].value => other = cf[2]}

\* C20: a call of a declared function with n >= 0 declared parameters reports
\* exactly one argument-count error and no per-argument type error when the
\* number of arguments differs from n, and no argument-count error when the
\* number equals n
C20_ArgumentCount ==
    AnalyzeDone =>
        \A cf \in ResolvedCalls :
            LET c == cf[1]
                n == Len(cf[2].children)
            IN IF Len(c.children) # n
               THEN /\ CountErrors("Function expects arguments", c.value, c.line) = 1
                    /\ CountErrors("Argument type mismatch", c.value, c.line) = 0
               ELSE CountErrors("Function expects arguments", c.value, c.line) = 0

\* the analyzer states the walk is seen in: between two statements of the
\* program, and before and after every declaration and assignment at any depth
SeenStates ==
    {unlogged(S)} \cup {S.calls[k].pre : k \in 1..Len(S.calls)}
                  \cup {S.calls[k].post : k \in 1..Len(S.calls)}

\* no entry is of a deeper scope than the current one
LevelsWithin(a) ==
    \A i \in 1..Len(a.table) :
        a.table[i].scope_level >= 0 /\ a.table[i].scope_level <= a.current_scope

\* a scope exit in state a purges the entries of the current scope and
\* leaves every other entry as it is, in its place
PurgesOnlyCurrent(a) ==
    LET b == exit_scope(a) IN
    /\ b.current_scope = a.current_scope - 1
    /\ \A i \in 1..Len(b.table) : b.table[i].scope_level # a.current_scope
    /\ b.table = SelectSeq(a.table, LAMBDA e : e.scope_level < a.current_scope)

\* C21: at every point of the analysis every entry has scope_level <=
\* current_scope; a scope exit leaves no entry of the exited scope and leaves
\* every entry of an outer scope present and unchanged; the scopes a
\* statement of the program opens are closed when its check returns, so that
\* current_scope is 0 when the check of the program ends
C21_ScopesPurged ==
    /\ [](\A a \in SeenStates : LevelsWithin(a))
    /\ [](\A a \in SeenStates : a.current_scope > 0 => PurgesOnlyCurrent(a))
    /\ [](pc \in {"analyze", "check_types"} => S.current_scope = 0)
    /\ [][(pc \in {"analyze", "check_types"} /\ stmt' = stmt + 1) =>
            /\ S'.current_scope = 0
            /\ \A i \in 1..Len(S'.table) : S'.table[i].scope_level = 0
            /\ Len(S'.table) >= Len(S.table)
            /\ \A i \in 1..Len(S.table) :
                   /\ S'.table[i].name = S.table[i].name
                   /\ S'.table[i].scope_level = S.table[i].scope_level]_vars

\* a declaration two scopes deep was checked next to an entry of scope 0, and
\* at the end of the walk only the entry of scope 0 is left
C21_Witness ==
    /\ AnalyzeDone
    /\ S.current_scope = 0
    /\ Len(S.table) > 0
    /\ \E k \in 1..Len(S.calls) :
          LET a == S.calls[k].post IN
          /\ a.current_scope = 2
          /\ \E i, j, l \in 1..Len(a.table) :
                /\ a.table[i].scope_level = 0
                /\ a.table[j].scope_level = 1
                /\ a.table[l].scope_level = 2
          /\ Len(a.table) > Len(S.table)

\* the instructions of the IRFunction of that name, none when the module has
\* no such function
InstructionsOf(name) ==
    LET fs == {f \in 1..Len(M.functions) : M.functions[f].name = name} IN
    IF fs = {} THEN <<>> ELSE M.functions[CHOOSE f \in fs : TRUE].instructions

\* the stack offsets of the symbols of that name in the IRFunction of that name
OffsetsOf(fname, name) ==
    UNION {{M.functions[f].sym_table.head[i].stack_offset :
               i \in {j \in 1..Len(M.functions[f].sym_table.head) :
                         M.functions[f].sym_table.head[j].name = name}} :
           f \in {g \in 1..Len(M.functions) : M.functions[g].name = fname}}

\* the statements x = literal of the program itself whose x an earlier
\* statement of the program declares
TopAssigns ==
    {i \in 1..Len(root.children) :
        /\ root.children[i].type \in {"AST_ASSIGN_STMT", "AST_BINARY_EXPR"}
        /\ root.children[i].value = <<"=">>
        /\ root.children[i].left.type = "AST_IDENTIFIER"
        /\ root.children[i].right.type = "AST_LITERAL"
        /\ \E j \in 1..(i - 1) : /\ root.children[j].type = "AST_VAR_DECL"
                                 /\ root.children[j].value = root.children[i].left.value}

\* C22: a statement x = e whose x is declared in the function being lowered
\* (here: a statement of the program, lowered into main, with a literal e) is
\* lowered to the instructions of e followed by a STORE to x's slot offset,
\* with no LOAD of x for the target in front of them
C22_AssignmentStores ==
    Lowered =>
        \A i \in TopAssigns :
            LET instrs == InstructionsOf(<<"m", "a", "i", "n">>)
                slots == OffsetsOf(<<"m", "a", "i", "n">>, root.children[i].left.value)
            IN \E k \in 1..(Len(instrs) - 1) :
                  /\ instrs[k].opcode = "IR_CONST_INT"
                  /\ instrs[k].src1 = ir_value_create_int(atoll(root.children[i].right.value))
                  /\ instrs[k + 1].opcode = "IR_STORE"
                  /\ instrs[k + 1].dest.int_val \in slots
                  /\ (k > 1 => ~(/\ instrs[k - 1].opcode = "IR_LOAD"
                                 /\ instrs[k - 1].src1.int_val \in slots))

\* the return statements of the top-level functions other than main, each
\* with the name of its function
ReturnNodes ==
    {x \in {fn \in FunctionDecls : fn.value # <<"m", "a", "i", "n">>} \X Nodes(root) :
        x[2].type = "AST_RETURN_STMT" /\ x[2] \in Nodes(x[1].body)}

\* the expression a return statement carries, Nil for a bare return
ReturnExpr(r) == IF r.right # Nil THEN r.right ELSE r.left

\* C23: a return with an expression (here: an identifier or a literal) is
\* lowered to the expression's instruction immediately followed by a RETURN,
\* and only a bare return is lowered to the constant 0 followed by a RETURN
C23_ReturnLowering ==
    Lowered =>
        \A x \in ReturnNodes :
            LET instrs == InstructionsOf(x[1].value)
                e == ReturnExpr(x[2])
            IN \E k \in 1..(Len(instrs) - 1) :
                  /\ instrs[k + 1].opcode = "IR_RETURN"
                  /\ instrs[k + 1].src1 = NoValue
                  /\ IF e = Nil
                     THEN instrs[k].opcode = "IR_CONST_INT" /\ instrs[k].src1 = ir_value_create_int(0)
                     ELSE IF e.type = "AST_IDENTIFIER"
                     THEN /\ instrs[k].opcode = "IR_LOAD"
                          /\ instrs[k].src1.int_val \in OffsetsOf(x[1].value, e.value)
                     ELSE IF e.type = "AST_LITERAL"
                     THEN /\ instrs[k].opcode = "IR_CONST_INT"
                          /\ instrs[k].src1 = ir_value_create_int(atoll(e.value))
                     ELSE TRUE

\* the opcode the specification gives for an operator
SpecOpcode(op) ==
    CASE op = <<"+">> -> "IR_ADD" [] op = <<"-">> -> "IR_SUB"
      [] op = <<"*">> -> "IR_MUL" [] op = <<"/">> -> "IR_DIV"
      [] op = <<"=", "=">> -> "IR_EQ" [] op = <<"!", "=">> -> "IR_NE"
      [] op = <<"<">> -> "IR_LT" [] op = <<"<", "=">> -> "IR_LE"
      [] op = <<">">> -> "IR_GT" [] op = <<">", "=">> -> "IR_GE"
      [] OTHER -> "none"

\* the binary expressions of the program other than assignments
BinaryNodes == {n \in Nodes(root) : n.type = "AST_BINARY_EXPR" /\ n.value # <<"=">>}

\* the declarations of the program itself whose initializer is a binary
\* expression of two literals
TopBinaryDecls ==
    {i \in 1..Len(root.children) :
        /\ root.children[i].type = "AST_VAR_DECL"
        /\ root.children[i].right \in BinaryNodes
        /\ root.children[i].right.left.type = "AST_LITERAL"
        /\ root.children[i].right.right.type = "AST_LITERAL"}

\* C24: a binary expression (here: of two literals, in a declaration of the
\* program) is lowered to the left operand, a PUSH, the right operand and one
\* opcode instruction, the opcode being the one listed for the operator; and
\* two different operators of the program never get the same opcode
C24_BinaryLowering ==
    Lowered =>
        /\ \A i \in TopBinaryDecls :
              LET instrs == InstructionsOf(<<"m", "a", "i", "n">>)
                  b == root.children[i].right
              IN \E k \in 1..(Len(instrs) - 3) :
                    /\ instrs[k].opcode = "IR_CONST_INT"
                    /\ instrs[k].src1 = ir_value_create_int(atoll(b.left.value))
                    /\ instrs[k + 1].opcode = "IR_PUSH"
                    /\ instrs[k + 2].opcode = "IR_CONST_INT"
                    /\ instrs[k + 2].src1 = ir_value_create_int(atoll(b.right.value))
                    /\ instrs[k + 3].opcode \notin {"IR_CONST_INT", "IR_PUSH"}
                    /\ SpecOpcode(b.value) # "none" => instrs[k + 3].opcode = SpecOpcode(b.value)
        /\ \A m, n \in BinaryNodes :
              m.value # n.value => binary_opcode(m.value) # binary_opcode(n.value)

\* the token at which a recovery from a failure at token c stops: just after
\* the first line end or semicolon, or at the first token that starts a
\* statement, or at EOF, whichever comes first
StopPoint(c) ==
    LET stops == {i \in c..Len(tokens) :
                     tokens[i].type \in SyncStart \cup {"TOKEN_NEWLINE", "TOKEN_SEMICOLON", "TOKEN_EOF"}}
        first == CHOOSE i \in stops : \A j \in stops : i <= j
    IN IF tokens[first].type \in {"TOKEN_NEWLINE", "TOKEN_SEMICOLON"} THEN first + 1 ELSE first

\* the tokens from i on are a well-formed statement var NAME = NUMBER
WellFormedDeclAt(i) ==
    /\ i + 4 <= Len(tokens)
    /\ tokens[i].type = "TOKEN_VAR"
    /\ tokens[i + 1].type = "TOKEN_IDENTIFIER"
    /\ tokens[i + 2].type = "TOKEN_OPERATOR" /\ tokens[i + 2].value = <<"=">>
    /\ tokens[i + 3].type = "TOKEN_NUMBER"
    /\ tokens[i + 4].type \in {"TOKEN_NEWLINE", "TOKEN_SEMICOLON", "TOKEN_EOF"}

\* no token of the program opens a nested statement list
NoBlocks ==
    \A i \in 1..Len(tokens) :
        tokens[i].type \notin {"TOKEN_IF", "TOKEN_WHILE", "TOKEN_FOR", "TOKEN_FUNCTION",
                               "TOKEN_LBRACE", "TOKEN_HASH"}

\* the places of the root's children that are declarations
DeclPlaces == {k \in 1..Len(root.children) : root.children[k].type = "AST_VAR_DECL"}

\* C25: when a statement of the program fails to parse (parse_statement
\* gives no node), the tokens from the one the first error of the statement
\* was reported at are discarded up to and including the next line end or
\* semicolon, or up to the next statement-leading keyword, or up to EOF,
\* whichever is first, and nothing is attached; every well-formed
\* declaration of a program of simple statements is parsed and attached to
\* the root, in source order
C25_Synchronize ==
    /\ [][(pc = "parse" /\ pc' = "parse") =>
             LET r == parse("parse_statement", <<skip_separators(P)>>) IN
             (/\ ~match(skip_separators(P), "TOKEN_EOF")
              /\ r.node = Nil
              /\ Len(P'.msgs) > Len(P.msgs)) =>
                 /\ P'.current = StopPoint(P'.msgs[Len(P.msgs) + 1].at)
                 /\ root' = root]_vars
    /\ []((Parsed /\ NoBlocks) =>
             /\ \A i \in 1..Len(tokens) :
                   WellFormedDeclAt(i) =>
                       \E k \in DeclPlaces :
                           /\ root.children[k].tok = i + 1
                           /\ root.children[k].value = tokens[i + 1].value
                           /\ root.children[k].right # Nil
                           /\ root.children[k].right.value = tokens[i + 3].value
             /\ \A k, l \in DeclPlaces :
                   k < l => root.children[k].tok < root.children[l].tok)

\* the symbols of the IRFunction of that name, in the order they were added
SymbolsOf(name) ==
    LET fs == {f \in 1..Len(M.functions) : M.functions[f].name = name} IN
    IF fs = {} THEN <<>> ELSE M.functions[CHOOSE f \in fs : TRUE].sym_table.head

\* the variable declarations below a node
DeclsBelow(n) == {d \in Nodes(n) : d.type = "AST_VAR_DECL"}

\* the variable declarations among the statements of the program itself
TopDecls == {k \in 1..Len(root.children) : root.children[k].type = "AST_VAR_DECL"}

\* C26: within one IR function every parameter and every variable
\* declaration gets a slot of its own: the i-th symbol added has the offset
\* -8 * i, counted from the function's own zero point, so that no two symbols
\* of a function share an offset; a declared function has a symbol for each
\* of its parameters, in their order, and for each declaration of its body,
\* and main has one for each declaration of the program itself
C26_FreshSlots ==
    Lowered =>
        /\ \A f \in 1..Len(M.functions) :
              LET head == M.functions[f].sym_table.head IN
              /\ \A i \in 1..Len(head) : head[i].stack_offset = 0 - 8 * i
              /\ \A i, j \in 1..Len(head) : i # j => head[i].stack_offset # head[j].stack_offset
        /\ \A fn \in FunctionDecls :
              (fn.value # <<"m", "a", "i", "n">>
               /\ \A other \in FunctionDecls : other.value = fn.value => other = fn) =>
                  LET head == SymbolsOf(fn.value) IN
                  /\ Len(head) = Len(fn.children) + Cardinality(DeclsBelow(fn.body))
                  /\ \A i \in 1..Len(fn.children) : head[i].name = fn.children[i].value
        /\ Len(SymbolsOf(<<"m", "a", "i", "n">>)) >= Cardinality(TopDecls)

\* the declarations and assignments that are statements of the program or of
\* a block
LoggedStatements ==
    UNION {{b.children[k] : k \in {j \in 1..Len(b.children) :
                                      b.children[j].type \in {"AST_VAR_DECL", "AST_CONST_DECL",
                                                              "AST_ASSIGN_STMT"}}} :
           b \in {n \in Nodes(root) : n.type \in {"AST_PROGRAM", "AST_BLOCK"}}}

\* how often the first pass has checked the statement
TimesChecked(n) == Cardinality({k \in 1..Len(S.calls) : S.calls[k].node = n})

\* C27: during one check of the parsed program every statement node (here:
\* every declaration and assignment statement, at any depth, the branches of
\* if statements included) is analyzed exactly once
C27_EachStatementOnce ==
    AnalyzeDone => \A n \in LoggedStatements : TimesChecked(n) = 1

\* the declarations var d = p directly in the body of a top-level function
\* whose p is a parameter of the function that no earlier statement of the
\* body itself declares again: the scope chain of the analyzer resolves p to
\* the parameter, whatever nested blocks before the declaration have declared
ParameterReads ==
    {x \in UNION {{<<fn, k, i>> : k \in 1..Len(fn.body.children), i \in 1..Len(fn.children)} :
                  fn \in {g \in FunctionDecls :
                             /\ g.value # <<"m", "a", "i", "n">>
                             /\ g.body # Nil
                             /\ \A other \in FunctionDecls : other.value = g.value => other = g}} :
        LET d == x[1].body.children[x[2]] IN
        /\ d.type = "AST_VAR_DECL"
        /\ d.right # Nil
        /\ d.right.type = "AST_IDENTIFIER"
        /\ d.right.value = x[1].children[x[3]].value
        /\ \A j \in 1..(x[3] - 1) : x[1].children[j].value # d.right.value
        /\ \A j \in 1..(x[2] - 1) :
              ~(x[1].body.children[j].type = "AST_VAR_DECL"
                /\ x[1].body.children[j].value = d.right.value)}

\* C28: the slot the lowering loads for an identifier is the slot of the
\* declaration the analyzer resolves the identifier to; here: a read of a
\* parameter in the body of its function loads the parameter's slot, also
\* after a nested block that declared the same name has ended
C28_LoadsResolvedSlot ==
    Lowered =>
        \A x \in ParameterReads :
            LET instrs == InstructionsOf(x[1].value)
                d == x[1].body.children[x[2]]
            IN \E q \in 1..(Len(instrs) - 1) :
                  /\ instrs[q].opcode = "IR_LOAD"
                  /\ instrs[q].src1.int_val = 0 - 8 * x[3]
                  /\ instrs[q + 1].opcode = "IR_STORE"
                  /\ instrs[q + 1].dest.int_val \in OffsetsOf(x[1].value, d.value)

\* the parser state with the cursor at token i
CursorAt(i) == [P EXCEPT !.current = i]

\* C29: parser_parse terminates on every token sequence that ends with EOF:
\* the cursor never decreases and never passes the EOF token; every iteration
\* of the top-level loop advances the cursor; and from whatever token that is
\* not EOF a statement (one iteration of a block loop) or an expression (one
\* iteration of an argument or element list loop) is parsed, and whenever
\* synchronize takes a step, the cursor advances, while at EOF each of them
\* leaves the cursor where it is; the top-level loop ends exactly when the
\* cursor is on the last token, so the distance Len(tokens) - P.current is a
\* variant that bounds the number of iterations
C29_ParserTerminates ==
    /\ [](pc = "parse" => (P.current >= 1 /\ P.current <= Len(tokens)))
    /\ [][(pc = "parse" /\ pc' = "parse") =>
             (P'.current > P.current /\ P'.current <= Len(tokens))]_vars
    /\ [][pc = "parse" => P'.current >= P.current]_vars
    /\ [](pc = "parse" =>
             \A i \in 1..Len(tokens) :
                 LET s == parse("parse_statement", <<CursorAt(i)>>).p.current
                     e == parse("parse_expression", <<CursorAt(i)>>).p.current
                     y == synchronize(CursorAt(i)).current
                 IN /\ s <= Len(tokens) /\ e <= Len(tokens) /\ y <= Len(tokens)
                    /\ y >= i
                    /\ IF tokens[i].type = "TOKEN_EOF"
                       THEN s = i /\ e = i /\ y = i
                       ELSE s > i /\ e > i /\ advance(CursorAt(i)).current = i + 1)
    /\ [](pc = "parse" => (match(P, "TOKEN_EOF") <=> P.current = Len(tokens)))

\* parser_parse has returned with the cursor on EOF after errors in a
\* program with a call that has an argument inside a block
C29_Witness ==
    /\ Parsed
    /\ P.had_error = 1
    /\ P.current = Len(tokens)
    /\ \E b \in Nodes(root) :
          /\ b.type = "AST_BLOCK"
          /\ \E c \in Nodes(b) : c.type = "AST_CALL_EXPR" /\ Len(c.children) >= 1

\* the first token from i on that has one of the types, 0 when there is none
FirstOf(i, types) ==
    LET at == {k \in i..Len(tokens) : tokens[k].type \in types}
    IN IF at = {} THEN 0 ELSE CHOOSE k \in at : \A m \in at : k <= m

\* the tokens that open a construct of its own inside a body
Openers == {"TOKEN_IF", "TOKEN_WHILE", "TOKEN_FOR", "TOKEN_FUNCTION", "TOKEN_LBRACE"}

\* the `end` that terminates the if statement at token i whose branches
\* hold no construct of their own
ClosingEnd(i) == FirstOf(i + 1, {"TOKEN_END"})

\* token i starts an if statement with elif/else branches, no nested
\* construct and a terminating `end`
SimpleIfAt(i) ==
    /\ tokens[i].type = "TOKEN_IF"
    /\ ClosingEnd(i) # 0
    /\ \A k \in (i + 1)..(ClosingEnd(i) - 1) : tokens[k].type \notin Openers

\* the first token after e that is no separator
AfterSeparators(e) ==
    FirstOf(e + 1, {tokens[k].type : k \in 1..Len(tokens)}
                       \ {"TOKEN_NEWLINE", "TOKEN_SEMICOLON"})

\* token i opens a while, for or function block whose first construct is
\* such an if statement, followed by the `end` of the block
EnclosingAt(i) ==
    /\ tokens[i].type \in {"TOKEN_WHILE", "TOKEN_FOR", "TOKEN_FUNCTION"}
    /\ LET j == FirstOf(i + 1, Openers \cup {"TOKEN_END"})
       IN /\ j # 0
          /\ SimpleIfAt(j)
          /\ tokens[AfterSeparators(ClosingEnd(j))].type = "TOKEN_END"

\* the `end` of the block that token i opens
BlockEnd(i) == AfterSeparators(ClosingEnd(FirstOf(i + 1, Openers)))

\* C30: parsing an if statement with elif branches and one terminating `end`
\* consumes exactly that `end`; an `end` that follows it closes the enclosing
\* while, for or function block, whose statement ends there and holds no
\* node of a later statement
C30_IfConsumesOneEnd ==
    pc = "parse" =>
        /\ \A i \in 1..Len(tokens) :
              SimpleIfAt(i) =>
                  parse("parse_if", <<CursorAt(i)>>).p.current = ClosingEnd(i) + 1
        /\ \A i \in 1..Len(tokens) :
              EnclosingAt(i) =>
                  LET r == parse("parse_statement", <<CursorAt(i)>>)
                  IN /\ r.p.current = BlockEnd(i) + 1
                     /\ \A n \in Nodes(r.node) : n.tok <= BlockEnd(i)

====
